---- MODULE Spec2Model ----
(***************************************************************************)
(* A model of the MiniC front end: the recursive-descent parser            *)
(* (src/src/parser/mod.rs) and the scope analyzer (src/src/scope/mod.rs).  *)
(*                                                                         *)
(* The parser is a function of the token vector and a cursor.  Every       *)
(* parse_* method of the source is an operator taking the cursor value at  *)
(* entry and returning the parse result together with the cursor value at  *)
(* exit (the source mutates self.pos, also on the paths that return None). *)
(* One iteration of the top-level loop of parse_translation_unit is one    *)
(* action.  An index past the end of the token vector is a Rust panic; it  *)
(* is carried in the results as the flag `panic`.                          *)
(***************************************************************************)
EXTENDS Integers, Sequences, FiniteSets, TLC

VARIABLES
    tokens,                 \* Parser.tokens
    pos,                    \* Parser.pos (0-based)
    preprocessor_list,      \* local of parse_translation_unit
    external_declarations,  \* local of parse_translation_unit
    outcome,                \* "running", or how parse_translation_unit ended
    branch,                 \* the arm the last iteration of its loop took
    scopes,                 \* ScopeAnalyzer.all_scopes (the scope arena)
    current_scope,          \* ScopeAnalyzer.current_scope (index into scopes)
    errors,                 \* ScopeAnalyzer.errors
    last,                   \* the last scope operation and what it returned
    pass,                   \* the entry point that is running, or has returned
    next_decl,              \* its `for external_decl in &unit.external_declarations`
    analyze_result,         \* what analyze_translation_unit returned
    checker,                \* the fields of TypeChecker
    check_result            \* what check_translation_unit returned

vars == <<tokens, pos, preprocessor_list, external_declarations, outcome, branch,
          scopes, current_scope, errors, last,
          pass, next_decl, analyze_result, checker, check_result>>

parserVars == <<tokens, pos, preprocessor_list, external_declarations, outcome, branch>>
scopeVars == <<scopes, current_scope, errors, last>>
passVars == <<pass, next_decl, analyze_result, checker, check_result>>

(***************************************************************************)
(* Tokens.  A token is a record [k, v]: k the variant of enum Token, v its *)
(* payload ("" for the variants without one).                              *)
(***************************************************************************)
Tok(k) == [k |-> k, v |-> ""]
Ident(n) == [k |-> "Identifier", v |-> n]
IntLit(n) == [k |-> "IntLit", v |-> n]
FloatLit(n) == [k |-> "FloatLit", v |-> n]
StringLit(s) == [k |-> "StringLit", v |-> s]
BoolLit(b) == [k |-> "BoolLit", v |-> b]
ErrorTok(m) == [k |-> "Error", v |-> m]
CommentTok(s) == [k |-> "Comment", v |-> s]
BlockCommentTok(s) == [k |-> "BlockComment", v |-> s]
\* The lexer's payload is the directive with its '#': hash says whether the
\* '#' is there, name is the rest.
PreprocessorTok(name) == [k |-> "Preprocessor", v |-> [hash |-> TRUE, name |-> name]]

TLen == Len(tokens)
Kind(p) == tokens[p + 1].k
Payload(p) == tokens[p + 1].v
\* self.pos < self.tokens.len() && self.tokens[self.pos] == Token::<k>
Is(p, k) == p < TLen /\ Kind(p) = k

\* Option<T>
NoneOpt == <<>>
SomeOpt(x) == <<x>>

\* Results of the expression methods: Option<Expression> and the cursor.
ENone(p) == [ok |-> FALSE, val |-> <<>>, pos |-> p]
ESome(v, p) == [ok |-> TRUE, val |-> v, pos |-> p]

\* Results of the statement and declaration methods: Option<T>, the cursor,
\* and whether an index past the end of tokens was read.
SNone(p) == [ok |-> FALSE, val |-> <<>>, pos |-> p, panic |-> FALSE]
SSome(v, p) == [ok |-> TRUE, val |-> v, pos |-> p, panic |-> FALSE]
SPanic(p) == [ok |-> FALSE, val |-> <<>>, pos |-> p, panic |-> TRUE]

\* let v = <value>; <rest>: the rest K of a method body, run with the value v,
\* which is computed before the rest is run.
With(v, K(_)) == IF Len(<<v>>) = 1 THEN K(v) ELSE K(v)

RECURSIVE parse_assignment_expression(_)
RECURSIVE parse_conditional_expression(_)
RECURSIVE BinaryLevel(_, _)
RECURSIVE BinaryLoop(_, _, _)
RECURSIVE parse_unary_expression(_)
RECURSIVE PostfixLoop(_, _)
RECURSIVE CallArgsLoop(_, _)
RECURSIVE parse_statement(_)
RECURSIVE StatementLoop(_, _, _)
RECURSIVE SwitchCaseLoop(_, _)

parse_expression(p) == parse_assignment_expression(p)

(***************************************************************************)
(* Expressions.                                                            *)
(***************************************************************************)
parse_primary_expression(p) ==
    IF p >= TLen THEN ENone(p)
    ELSE CASE Kind(p) = "Identifier" -> ESome(<<"Identifier", Payload(p)>>, p + 1)
           [] Kind(p) = "IntLit" -> ESome(<<"Constant", "Integer", Payload(p)>>, p + 1)
           [] Kind(p) = "FloatLit" -> ESome(<<"Constant", "Float", Payload(p)>>, p + 1)
           [] Kind(p) = "StringLit" -> ESome(<<"StringLiteral", Payload(p)>>, p + 1)
           [] Kind(p) = "ParenL" ->
                With(parse_expression(p + 1), LAMBDA e :
                     IF ~e.ok THEN ENone(e.pos)
                     ELSE IF Is(e.pos, "ParenR") THEN ESome(e.val, e.pos + 1)
                     ELSE ENone(e.pos))
           [] OTHER -> ENone(p)

\* The comma-separated tail of a call's arguments: an argument that fails to
\* parse is dropped and the loop goes on.
CallArgsLoop(args, p) ==
    IF Is(p, "Comma")
    THEN With(parse_expression(p + 1), LAMBDA a :
              CallArgsLoop(IF a.ok THEN Append(args, a.val) ELSE args, a.pos))
    ELSE [vals |-> args, pos |-> p]

\* The arguments of a call whose '(' is at p - 1.
CallArgs(p) ==
    IF p < TLen /\ Kind(p) # "ParenR"
    THEN With(parse_expression(p), LAMBDA first :
              CallArgsLoop(IF first.ok THEN <<first.val>> ELSE <<>>, first.pos))
    ELSE [vals |-> <<>>, pos |-> p]

PostfixLoop(expr, p) ==
    IF p >= TLen THEN ESome(expr, p)
    ELSE CASE Kind(p) = "ParenL" ->
                With(CallArgs(p + 1), LAMBDA args :
                     IF Is(args.pos, "ParenR")
                     THEN PostfixLoop(IF expr[1] = "Identifier"
                                      THEN <<"FunctionCall", expr[2], args.vals>>
                                      ELSE expr,
                                      args.pos + 1)
                     ELSE PostfixLoop(expr, args.pos))
           [] Kind(p) = "BracketL" ->
                With(parse_expression(p + 1), LAMBDA index :
                     IF index.ok /\ Is(index.pos, "BracketR")
                     THEN PostfixLoop(<<"ArrayAccess", expr, index.val>>, index.pos + 1)
                     ELSE PostfixLoop(expr, index.pos))
           [] Kind(p) = "Dot" ->
                IF Is(p + 1, "Identifier")
                THEN PostfixLoop(<<"MemberAccess", expr, Payload(p + 1)>>, p + 2)
                ELSE PostfixLoop(expr, p + 1)
           [] Kind(p) = "Arrow" ->
                IF Is(p + 1, "Identifier")
                THEN PostfixLoop(<<"PointerAccess", expr, Payload(p + 1)>>, p + 2)
                ELSE PostfixLoop(expr, p + 1)
           [] Kind(p) = "PlusPlus" -> PostfixLoop(<<"PostfixOp", expr, "PlusPlus">>, p + 1)
           [] Kind(p) = "MinusMinus" -> PostfixLoop(<<"PostfixOp", expr, "MinusMinus">>, p + 1)
           [] OTHER -> ESome(expr, p)

parse_postfix_expression(p) ==
    With(parse_primary_expression(p), LAMBDA e :
         IF ~e.ok THEN ENone(e.pos) ELSE PostfixLoop(e.val, e.pos))

\* Token -> UnaryOperator, for the prefix operators parse_unary_expression takes.
UnaryOps ==
    [Plus |-> "Plus", Minus |-> "Minus", Not |-> "Not",
     BitAndOp |-> "AddressOf", Mult |-> "Dereference"]

parse_unary_expression(p) ==
    IF p >= TLen THEN ENone(p)
    ELSE IF Kind(p) \in DOMAIN UnaryOps
    THEN With(parse_unary_expression(p + 1), LAMBDA e :
              IF ~e.ok THEN ENone(e.pos)
              ELSE ESome(<<"UnaryOp", UnaryOps[Kind(p)], e.val>>, e.pos))
    ELSE parse_postfix_expression(p)

(***************************************************************************)
(* The ten binary levels, parse_logical_or_expression (level 1) down to    *)
(* parse_multiplicative_expression (level 10).  Each parses one operand at *)
(* the next tighter level, then loops over its own operators, folding to   *)
(* the left.  LevelOps[l] maps the tokens level l loops over to the        *)
(* BinaryOperator it builds.                                               *)
(***************************************************************************)
\* A faulty variant of LevelOps: the additive and the multiplicative level
\* in each other's place.
LevelOps_AdditiveTightest ==
    << [OrOp |-> "Or"],
       [AndOp |-> "And"],
       [BitOrOp |-> "BitOr"],
       [Xor |-> "Xor"],
       [BitAndOp |-> "BitAnd"],
       [EqualsOp |-> "Equals", NotEqualsOp |-> "NotEquals"],
       [LessOp |-> "Less", GreaterOp |-> "Greater",
        LessEqOp |-> "LessEq", GreaterEqOp |-> "GreaterEq"],
       [LShift |-> "LShift", RShift |-> "RShift"],
       [Mult |-> "Mult", Div |-> "Div", Mod |-> "Mod"],
       [Plus |-> "Plus", Minus |-> "Minus"] >>

LevelOps ==
    << [OrOp |-> "Or"],
       [AndOp |-> "And"],
       [BitOrOp |-> "BitOr"],
       [Xor |-> "Xor"],
       [BitAndOp |-> "BitAnd"],
       [EqualsOp |-> "Equals", NotEqualsOp |-> "NotEquals"],
       [LessOp |-> "Less", GreaterOp |-> "Greater",
        LessEqOp |-> "LessEq", GreaterEqOp |-> "GreaterEq"],
       [LShift |-> "LShift", RShift |-> "RShift"],
       [Plus |-> "Plus", Minus |-> "Minus"],
       [Mult |-> "Mult", Div |-> "Div", Mod |-> "Mod"] >>

\* The operand parser of level l: the next tighter level, unary below the last.
TighterLevel(l, p) ==
    IF l = Len(LevelOps) THEN parse_unary_expression(p) ELSE BinaryLevel(l + 1, p)

BinaryLoop(l, left, p) ==
    IF p < TLen /\ Kind(p) \in DOMAIN LevelOps[l]
    THEN With(TighterLevel(l, p + 1), LAMBDA right :
              IF ~right.ok THEN ENone(right.pos)
              ELSE BinaryLoop(l, <<"BinaryOp", left, LevelOps[l][Kind(p)], right.val>>,
                              right.pos))
    ELSE ESome(left, p)

BinaryLevel(l, p) ==
    With(TighterLevel(l, p), LAMBDA left :
         IF ~left.ok THEN ENone(left.pos) ELSE BinaryLoop(l, left.val, left.pos))

parse_logical_or_expression(p) == BinaryLevel(1, p)

parse_conditional_expression(p) ==
    With(parse_logical_or_expression(p), LAMBDA condition :
      IF ~condition.ok THEN ENone(condition.pos)
      ELSE IF Is(condition.pos, "Question")
      THEN With(parse_expression(condition.pos + 1), LAMBDA true_expr :
             IF ~true_expr.ok THEN ENone(true_expr.pos)
             ELSE IF Is(true_expr.pos, "Colon")
             THEN With(parse_conditional_expression(true_expr.pos + 1), LAMBDA false_expr :
                    IF ~false_expr.ok THEN ENone(false_expr.pos)
                    ELSE ESome(<<"Conditional", condition.val, true_expr.val,
                                 false_expr.val>>,
                               false_expr.pos))
             ELSE ENone(true_expr.pos))
      ELSE condition)

\* Token -> AssignmentOperator.
AssignOps ==
    [AssignOp |-> "Assign", PlusAssign |-> "PlusAssign", MinusAssign |-> "MinusAssign",
     MultAssign |-> "MultAssign", DivAssign |-> "DivAssign", ModAssign |-> "ModAssign",
     LShiftAssign |-> "LShiftAssign", RShiftAssign |-> "RShiftAssign",
     AndAssign |-> "AndAssign", XorAssign |-> "XorAssign", OrAssign |-> "OrAssign"]

\* A faulty variant of AssignmentRhs: the right operand parsed one level down,
\* which would make assignment non-associative.
AssignmentRhs_Conditional(p) == parse_conditional_expression(p)

\* The right operand of an assignment operator at p - 1: the method calls itself.
AssignmentRhs(p) == parse_assignment_expression(p)

parse_assignment_expression(p) ==
    With(parse_conditional_expression(p), LAMBDA left :
      IF ~left.ok THEN ENone(left.pos)
      ELSE IF left.pos < TLen /\ Kind(left.pos) \in DOMAIN AssignOps
      THEN IF /\ Kind(left.pos) = "AssignOp"
              /\ (left.pos + 1 >= TLen \/ Kind(left.pos + 1) = "Semicolon")
           THEN ENone(left.pos + 1)
           ELSE With(AssignmentRhs(left.pos + 1), LAMBDA right :
                  IF ~right.ok THEN ENone(right.pos)
                  ELSE ESome(<<"Assignment", left.val, AssignOps[Kind(left.pos)],
                               right.val>>,
                             right.pos))
      ELSE left)

(***************************************************************************)
(* Statements.  A statement is a tuple whose first element is the variant  *)
(* of enum Statement.                                                      *)
(***************************************************************************)
\* The type keywords that start a local declaration / a function parameter.
LocalTypeTokens == {"Int", "Float", "Char", "Double", "Long", "Short"}

\* while pos < len && tokens[pos] is none of `stops` { parse_statement or break }
StatementLoop(acc, p, stops) ==
    IF p < TLen /\ Kind(p) \notin stops
    THEN With(parse_statement(p), LAMBDA s :
           IF s.panic THEN [vals |-> acc, pos |-> s.pos, panic |-> TRUE, fail |-> FALSE]
           ELSE IF s.ok THEN StatementLoop(Append(acc, s.val), s.pos, stops)
           ELSE [vals |-> acc, pos |-> s.pos, panic |-> FALSE, fail |-> FALSE])
    ELSE [vals |-> acc, pos |-> p, panic |-> FALSE, fail |-> FALSE]

\* The operand of `return` (p is the cursor after the keyword): an expression
\* that fails to parse becomes the identifier with the empty name.
ReturnOperand(p) ==
    IF p < TLen /\ Kind(p) # "Semicolon"
    THEN With(parse_expression(p), LAMBDA e :
           [expr |-> SomeOpt(IF e.ok THEN e.val ELSE <<"Identifier", "">>), pos |-> e.pos])
    ELSE [expr |-> NoneOpt, pos |-> p]

\* Token::Return
ReturnStatement(p) ==
    With(ReturnOperand(p + 1), LAMBDA r :
         SSome(<<"Return", r.expr>>, IF Is(r.pos, "Semicolon") THEN r.pos + 1 ELSE r.pos))

\* The else part of an if whose then part ended at p.
ElsePart(p) ==
    IF Is(p, "Else")
    THEN With(parse_statement(p + 1), LAMBDA s :
           IF s.ok THEN SSome(SomeOpt(s.val), s.pos) ELSE s)
    ELSE SSome(NoneOpt, p)

\* Token::If
IfStatement(p) ==
    IF ~Is(p + 1, "ParenL") THEN SNone(p + 1)
    ELSE With(parse_expression(p + 2), LAMBDA condition :
           IF ~condition.ok THEN SNone(condition.pos)
           ELSE IF ~Is(condition.pos, "ParenR") THEN SNone(condition.pos)
           ELSE With(parse_statement(condition.pos + 1), LAMBDA then_stmt :
                  IF then_stmt.panic \/ ~then_stmt.ok THEN then_stmt
                  ELSE With(ElsePart(then_stmt.pos), LAMBDA else_stmt :
                         IF else_stmt.panic \/ ~else_stmt.ok THEN else_stmt
                         ELSE SSome(<<"If", condition.val, then_stmt.val, else_stmt.val>>,
                                    else_stmt.pos))))

\* The three clauses of a for.  A clause is taken as present when the cursor
\* is not on the token that would end it.
ForInit(p) ==
    IF p < TLen /\ Kind(p) # "Semicolon"
    THEN With(parse_statement(p), LAMBDA s :
           IF s.ok THEN SSome(SomeOpt(s.val), s.pos) ELSE s)
    ELSE SSome(NoneOpt, p)

ForCondition(p) ==
    IF p < TLen /\ Kind(p) # "Semicolon"
    THEN With(parse_expression(p), LAMBDA e :
           IF e.ok THEN ESome(SomeOpt(e.val), e.pos) ELSE e)
    ELSE ESome(NoneOpt, p)

ForUpdate(p) ==
    IF p < TLen /\ Kind(p) # "ParenR"
    THEN With(parse_expression(p), LAMBDA e :
           IF e.ok THEN ESome(SomeOpt(e.val), e.pos) ELSE e)
    ELSE ESome(NoneOpt, p)

\* Token::For.  Only the separator after the condition is consumed here; the
\* one after the initialization is left to the initialization statement.
ForStatement(p) ==
    IF ~Is(p + 1, "ParenL") THEN SNone(p + 1)
    ELSE With(ForInit(p + 2), LAMBDA init :
           IF init.panic \/ ~init.ok THEN init
           ELSE With(ForCondition(init.pos), LAMBDA condition :
             IF ~condition.ok THEN SNone(condition.pos)
             ELSE With(ForUpdate(IF Is(condition.pos, "Semicolon")
                                 THEN condition.pos + 1 ELSE condition.pos),
                       LAMBDA update :
               IF ~update.ok THEN SNone(update.pos)
               ELSE IF ~Is(update.pos, "ParenR") THEN SNone(update.pos)
               ELSE With(parse_statement(update.pos + 1), LAMBDA body :
                      IF body.panic \/ ~body.ok THEN body
                      ELSE SSome(<<"For", init.val, condition.val, update.val, body.val>>,
                                 body.pos)))))

\* Token::While
WhileStatement(p) ==
    IF ~Is(p + 1, "ParenL") THEN SNone(p + 1)
    ELSE With(parse_expression(p + 2), LAMBDA condition :
           IF ~condition.ok THEN SNone(condition.pos)
           ELSE IF ~Is(condition.pos, "ParenR") THEN SNone(condition.pos)
           ELSE With(parse_statement(condition.pos + 1), LAMBDA body :
                  IF body.panic \/ ~body.ok THEN body
                  ELSE SSome(<<"While", condition.val, body.val>>, body.pos)))

\* Token::Do
DoStatement(p) ==
    With(parse_statement(p + 1), LAMBDA body :
      IF body.panic \/ ~body.ok THEN body
      ELSE IF ~Is(body.pos, "While") THEN SNone(body.pos)
      ELSE IF ~Is(body.pos + 1, "ParenL") THEN SNone(body.pos + 1)
      ELSE With(parse_expression(body.pos + 2), LAMBDA condition :
             IF ~condition.ok THEN SNone(condition.pos)
             ELSE IF ~Is(condition.pos, "ParenR") THEN SNone(condition.pos)
             ELSE SSome(<<"DoWhile", body.val, condition.val>>,
                        IF Is(condition.pos + 1, "Semicolon")
                        THEN condition.pos + 2 ELSE condition.pos + 1)))

\* The tokens that end the statements of one case.
CaseStops == {"Case", "Default", "BraceR"}

\* The loop over the cases of a switch; fail is a `?` that left the method.
SwitchCaseLoop(cases, p) ==
    IF ~(p < TLen /\ Kind(p) # "BraceR")
    THEN [vals |-> cases, pos |-> p, panic |-> FALSE, fail |-> FALSE]
    ELSE IF Kind(p) = "Case"
    THEN With(parse_expression(p + 1), LAMBDA case_expr :
           IF ~case_expr.ok
           THEN [vals |-> cases, pos |-> case_expr.pos, panic |-> FALSE, fail |-> TRUE]
           ELSE IF Is(case_expr.pos, "Colon")
           THEN With(StatementLoop(<<>>, case_expr.pos + 1, CaseStops), LAMBDA stmts :
                  IF stmts.panic THEN stmts
                  ELSE SwitchCaseLoop(Append(cases, <<"Case", case_expr.val, stmts.vals>>),
                                      stmts.pos))
           ELSE SwitchCaseLoop(cases, case_expr.pos))
    ELSE IF Kind(p) = "Default"
    THEN IF Is(p + 1, "Colon")
         THEN With(StatementLoop(<<>>, p + 2, CaseStops), LAMBDA stmts :
                IF stmts.panic THEN stmts
                ELSE SwitchCaseLoop(Append(cases, <<"Default", stmts.vals>>), stmts.pos))
         ELSE SwitchCaseLoop(cases, p + 1)
    ELSE [vals |-> cases, pos |-> p, panic |-> FALSE, fail |-> FALSE]

\* Token::Switch
SwitchStatement(p) ==
    IF ~Is(p + 1, "ParenL") THEN SNone(p + 1)
    ELSE With(parse_expression(p + 2), LAMBDA expr :
           IF ~expr.ok THEN SNone(expr.pos)
           ELSE IF ~Is(expr.pos, "ParenR") THEN SNone(expr.pos)
           ELSE IF ~Is(expr.pos + 1, "BraceL") THEN SNone(expr.pos + 1)
           ELSE With(SwitchCaseLoop(<<>>, expr.pos + 2), LAMBDA cases :
                  IF cases.panic THEN SPanic(cases.pos)
                  ELSE IF cases.fail THEN SNone(cases.pos)
                  ELSE IF Is(cases.pos, "BraceR")
                  THEN SSome(<<"Switch", expr.val, cases.vals>>, cases.pos + 1)
                  ELSE SNone(cases.pos)))

\* Token::Goto
GotoStatement(p) ==
    IF Is(p + 1, "Identifier")
    THEN SSome(<<"Goto", Payload(p + 1)>>, IF Is(p + 2, "Semicolon") THEN p + 3 ELSE p + 2)
    ELSE SNone(p + 1)

\* Token::BraceL
BlockStatement(p) ==
    With(StatementLoop(<<>>, p + 1, {"BraceR"}), LAMBDA stmts :
         IF stmts.panic THEN SPanic(stmts.pos)
         ELSE SSome(<<"Block", stmts.vals>>,
                    IF Is(stmts.pos, "BraceR") THEN stmts.pos + 1 ELSE stmts.pos))

\* The type_specifier the declaration branch stores for the keyword it read.
DeclaredTypeSpecifier(k) == "Int"

\* Token::Int | Float | Char | Double | Long | Short: a local declaration.
\* The name is read at tokens[pos] without a bounds test.
DeclarationStatement(p) ==
    IF p + 1 >= TLen THEN SPanic(p + 1)
    ELSE IF Kind(p + 1) # "Identifier" THEN SNone(p + 1)
    ELSE SSome(<<"Declaration",
                 [storage_class |-> NoneOpt, type_qualifiers |-> <<>>,
                  type_specifier |-> DeclaredTypeSpecifier(Kind(p)),
                  name |-> Payload(p + 1), initializer |-> NoneOpt]>>,
               IF Is(p + 2, "Semicolon") THEN p + 3 ELSE p + 2)

\* The default branch: an expression statement.
ExpressionStatement(p) ==
    With(parse_expression(p), LAMBDA expr :
         IF ~expr.ok THEN SNone(expr.pos)
         ELSE SSome(<<"Expression", expr.val>>,
                    IF Is(expr.pos, "Semicolon") THEN expr.pos + 1 ELSE expr.pos))

parse_statement(p) ==
    IF p >= TLen THEN SNone(p)
    ELSE CASE Kind(p) = "Return" -> ReturnStatement(p)
           [] Kind(p) = "If" -> IfStatement(p)
           [] Kind(p) = "For" -> ForStatement(p)
           [] Kind(p) = "While" -> WhileStatement(p)
           [] Kind(p) = "Do" -> DoStatement(p)
           [] Kind(p) = "Switch" -> SwitchStatement(p)
           [] Kind(p) = "Break" ->
                SSome(<<"Break">>, IF Is(p + 1, "Semicolon") THEN p + 2 ELSE p + 1)
           [] Kind(p) = "Continue" ->
                SSome(<<"Continue">>, IF Is(p + 1, "Semicolon") THEN p + 2 ELSE p + 1)
           [] Kind(p) = "Goto" -> GotoStatement(p)
           [] Kind(p) = "BraceL" -> BlockStatement(p)
           [] Kind(p) \in LocalTypeTokens -> DeclarationStatement(p)
           [] OTHER -> ExpressionStatement(p)

(***************************************************************************)
(* External declarations.                                                  *)
(***************************************************************************)
\* The keywords parse_function_definition takes as a return type, and the
\* String it stores for each.
TypeTokens == {"Int", "Void", "Char", "Float", "Double", "Long", "Short"}
TypeName ==
    [Int |-> "int", Void |-> "void", Char |-> "char", Float |-> "float",
     Double |-> "double", Long |-> "long", Short |-> "short"]

\* The keywords parse_variable_declaration and parse_typedef_declaration take.
VariableTypeTokens == {"Int", "Float", "Char", "Double", "Void"}

\* The type is read at tokens[pos] (the caller's loop has tested pos), the
\* name at tokens[pos] without a bounds test.
parse_function_parameter(p) ==
    IF p >= TLen THEN SPanic(p)
    ELSE IF Kind(p) \notin LocalTypeTokens THEN SNone(p)
    ELSE IF p + 1 >= TLen THEN SPanic(p + 1)
    ELSE IF Kind(p + 1) # "Identifier" THEN SNone(p + 1)
    ELSE SSome([param_type |-> TypeName[Kind(p)], name |-> Payload(p + 1)], p + 2)

RECURSIVE ParameterLoop(_, _)
\* while pos < len && tokens[pos] != ParenR { parameter or break; optional ',' }
ParameterLoop(acc, p) ==
    IF p < TLen /\ Kind(p) # "ParenR"
    THEN With(parse_function_parameter(p), LAMBDA param :
           IF param.panic THEN [vals |-> acc, pos |-> param.pos, panic |-> TRUE]
           ELSE IF ~param.ok THEN [vals |-> acc, pos |-> param.pos, panic |-> FALSE]
           ELSE ParameterLoop(Append(acc, param.val),
                              IF Is(param.pos, "Comma") THEN param.pos + 1 ELSE param.pos))
    ELSE [vals |-> acc, pos |-> p, panic |-> FALSE]

\* What follows the parameter list's ')': the body `{ ... }` and nothing else.
FunctionBody(name, return_type, parameters, p) ==
    IF ~Is(p, "BraceL") THEN SNone(p)
    ELSE With(StatementLoop(<<>>, p + 1, {"BraceR"}), LAMBDA body :
           IF body.panic THEN SPanic(body.pos)
           ELSE IF ~Is(body.pos, "BraceR") THEN SNone(body.pos)
           ELSE SSome([return_type |-> return_type, name |-> name,
                       parameters |-> parameters, body |-> body.vals],
                      body.pos + 1))

\* The return type and the name are read at tokens[pos] without a bounds test.
parse_function_definition(p) ==
    IF p >= TLen THEN SPanic(p)
    ELSE IF Kind(p) \notin TypeTokens THEN SNone(p)
    ELSE IF p + 1 >= TLen THEN SPanic(p + 1)
    ELSE IF Kind(p + 1) # "Identifier" THEN SNone(p + 1)
    ELSE IF ~Is(p + 2, "ParenL") THEN SNone(p + 2)
    ELSE With(ParameterLoop(<<>>, p + 3), LAMBDA parameters :
           IF parameters.panic THEN SPanic(parameters.pos)
           ELSE IF ~Is(parameters.pos, "ParenR") THEN SNone(parameters.pos)
           ELSE FunctionBody(Payload(p + 1), TypeName[Kind(p)], parameters.vals,
                             parameters.pos + 1))

RECURSIVE SkipToSemicolon(_)
\* while pos < len && tokens[pos] != Semicolon { pos += 1 }
SkipToSemicolon(p) ==
    IF p < TLen /\ Kind(p) # "Semicolon" THEN SkipToSemicolon(p + 1) ELSE p

\* After `static` / `const`: type, name, an initializer that is skipped, ';'.
parse_variable_declaration(p) ==
    IF p >= TLen THEN SNone(p)
    ELSE IF Kind(p) \notin VariableTypeTokens THEN SNone(p)
    ELSE IF p + 1 >= TLen THEN SNone(p + 1)
    ELSE IF Kind(p + 1) # "Identifier" THEN SNone(p + 1)
    ELSE With(IF Is(p + 2, "AssignOp") THEN SkipToSemicolon(p + 3) ELSE p + 2, LAMBDA p3 :
           SSome([storage_class |-> NoneOpt, type_qualifiers |-> <<>>,
                  type_specifier |-> Kind(p), name |-> Payload(p + 1),
                  initializer |-> NoneOpt],
                 IF Is(p3, "Semicolon") THEN p3 + 1 ELSE p3))

\* After `typedef`: type, name, optional ';'.
parse_typedef_declaration(p) ==
    IF p >= TLen THEN SNone(p)
    ELSE IF Kind(p) \notin VariableTypeTokens THEN SNone(p)
    ELSE IF p + 1 >= TLen THEN SNone(p + 1)
    ELSE IF Kind(p + 1) # "Identifier" THEN SNone(p + 1)
    ELSE SSome([type_specifier |-> Kind(p), name |-> Payload(p + 1)],
               IF Is(p + 2, "Semicolon") THEN p + 3 ELSE p + 2)

RECURSIVE EnumeratorLoop(_, _)
\* while pos < len && tokens[pos] != BraceR { identifier, optional ',' or break }
EnumeratorLoop(acc, p) ==
    IF p < TLen /\ Kind(p) # "BraceR" /\ Kind(p) = "Identifier"
    THEN EnumeratorLoop(Append(acc, Payload(p)),
                        IF Is(p + 1, "Comma") THEN p + 2 ELSE p + 1)
    ELSE [vals |-> acc, pos |-> p]

\* The enum's '{' is at p: enumerators, optional '}', optional ';'.
EnumBody(name, p) ==
    IF ~Is(p, "BraceL") THEN SNone(p)
    ELSE With(EnumeratorLoop(<<>>, p + 1), LAMBDA enumerators :
           With(IF Is(enumerators.pos, "BraceR")
                THEN enumerators.pos + 1 ELSE enumerators.pos, LAMBDA p2 :
             SSome([name |-> name, enumerators |-> enumerators.vals],
                   IF Is(p2, "Semicolon") THEN p2 + 1 ELSE p2)))

\* After `enum`: optional name, then the body.
parse_enum_declaration(p) ==
    IF p >= TLen THEN SNone(p)
    ELSE IF Kind(p) = "Identifier" THEN EnumBody(SomeOpt(Payload(p)), p + 1)
    ELSE EnumBody(NoneOpt, p)

RECURSIVE SpecifierQualifierLoop(_, _)
\* Int, Float, and the identifiers const / volatile, as long as they come.
SpecifierQualifierLoop(acc, p) ==
    IF p < TLen /\ Kind(p) \in {"Int", "Float"}
    THEN SpecifierQualifierLoop(Append(acc, <<"TypeSpecifier", Kind(p)>>), p + 1)
    ELSE IF p < TLen /\ Kind(p) = "Identifier" /\ Payload(p) = "const"
    THEN SpecifierQualifierLoop(Append(acc, <<"TypeQualifier", "Const">>), p + 1)
    ELSE IF p < TLen /\ Kind(p) = "Identifier" /\ Payload(p) = "volatile"
    THEN SpecifierQualifierLoop(Append(acc, <<"TypeQualifier", "Volatile">>), p + 1)
    ELSE [vals |-> acc, pos |-> p]

parse_specifier_qualifier_list(p) ==
    With(SpecifierQualifierLoop(<<>>, p), LAMBDA specifiers :
         IF specifiers.vals = <<>> THEN ENone(specifiers.pos)
         ELSE ESome(specifiers.vals, specifiers.pos))

parse_struct_declarator(p) ==
    IF p >= TLen THEN ENone(p)
    ELSE IF Kind(p) = "Identifier"
    THEN IF Is(p + 1, "Colon")
         THEN With(parse_expression(p + 2), LAMBDA expr :
                IF ~expr.ok THEN ENone(expr.pos)
                ELSE ESome([declarator |-> SomeOpt(Payload(p)),
                            bitfield |-> SomeOpt(expr.val)],
                           IF Is(expr.pos, "Semicolon") THEN expr.pos + 1 ELSE expr.pos))
         ELSE ESome([declarator |-> SomeOpt(Payload(p)), bitfield |-> NoneOpt],
                    IF Is(p + 1, "Semicolon") THEN p + 2 ELSE p + 1)
    ELSE IF Kind(p) = "Colon"
    THEN With(parse_expression(p + 1), LAMBDA expr :
           IF ~expr.ok THEN ENone(expr.pos)
           ELSE ESome([declarator |-> NoneOpt, bitfield |-> SomeOpt(expr.val)], expr.pos))
    ELSE ENone(p)

RECURSIVE StructDeclaratorLoop(_, _)
StructDeclaratorLoop(acc, p) ==
    IF Is(p, "Comma")
    THEN With(parse_struct_declarator(p + 1), LAMBDA decl :
           IF decl.ok THEN StructDeclaratorLoop(Append(acc, decl.val), decl.pos)
           ELSE [vals |-> acc, pos |-> decl.pos])
    ELSE [vals |-> acc, pos |-> p]

parse_struct_declarator_list(p) ==
    With(parse_struct_declarator(p), LAMBDA decl :
      IF ~decl.ok THEN ENone(decl.pos)
      ELSE With(StructDeclaratorLoop(<<decl.val>>, decl.pos), LAMBDA rest :
             ESome(rest.vals, rest.pos)))

RECURSIVE StructMemberLoop(_, _, _)
StructMemberLoop(specifiers, declarators, p) ==
    IF p < TLen /\ Kind(p) # "BraceR"
    THEN With(parse_specifier_qualifier_list(p), LAMBDA member_specifiers :
           IF ~member_specifiers.ok
           THEN [specifiers |-> specifiers, declarators |-> declarators,
                 pos |-> member_specifiers.pos]
           ELSE With(parse_struct_declarator_list(member_specifiers.pos),
                     LAMBDA member_declarators :
                  StructMemberLoop(specifiers \o member_specifiers.val,
                                   IF member_declarators.ok
                                   THEN declarators \o member_declarators.val
                                   ELSE declarators,
                                   member_declarators.pos)))
    ELSE [specifiers |-> specifiers, declarators |-> declarators, pos |-> p]

\* The struct's '{' is at p: members, optional '}', optional ';'.
StructBody(p) ==
    IF ~Is(p, "BraceL") THEN SNone(p)
    ELSE With(StructMemberLoop(<<>>, <<>>, p + 1), LAMBDA members :
           With(IF Is(members.pos, "BraceR") THEN members.pos + 1 ELSE members.pos,
                LAMBDA p2 :
             SSome([specifiers |-> members.specifiers,
                    declarators |-> members.declarators],
                   IF Is(p2, "Semicolon") THEN p2 + 1 ELSE p2)))

\* After `struct`: optional name, then the body.
parse_struct_declaration(p) ==
    IF p >= TLen THEN SNone(p)
    ELSE IF Kind(p) = "Identifier" THEN StructBody(p + 1)
    ELSE StructBody(p)

RECURSIVE PrintfArgsLoop(_, _)
PrintfArgsLoop(acc, p) ==
    IF Is(p, "Comma")
    THEN With(parse_expression(p + 1), LAMBDA expr :
           IF expr.ok THEN PrintfArgsLoop(Append(acc, <<"Expression", expr.val>>), expr.pos)
           ELSE [vals |-> acc, pos |-> expr.pos])
    ELSE [vals |-> acc, pos |-> p]

parse_printf_args(p) ==
    IF p >= TLen THEN [vals |-> <<>>, pos |-> p]
    ELSE IF Kind(p) = "StringLit"
    THEN PrintfArgsLoop(<<<<"StringLiteral", Payload(p)>>>>, p + 1)
    ELSE With(parse_expression(p), LAMBDA expr :
           PrintfArgsLoop(IF expr.ok THEN <<<<"Expression", expr.val>>>> ELSE <<>>,
                          expr.pos))

\* After the identifier printf: '(' args ')' ';'.
parse_printf_statement(p) ==
    IF ~Is(p, "ParenL") THEN SNone(p)
    ELSE With(parse_printf_args(p + 1), LAMBDA args :
           IF ~Is(args.pos, "ParenR") THEN SNone(args.pos)
           ELSE IF ~Is(args.pos + 1, "Semicolon") THEN SNone(args.pos + 1)
           ELSE SSome([args |-> args.vals], args.pos + 2))

RECURSIVE SkipTrivia(_)
\* The loop at the head of parse_external_declaration: preprocessor, comment
\* and error tokens are stepped over.
SkipTrivia(p) ==
    IF p < TLen /\ Kind(p) \in {"Preprocessor", "Comment", "BlockComment", "Error"}
    THEN SkipTrivia(p + 1)
    ELSE p

\* Wraps the result r of a declaration method in the ExternalDeclaration variant.
External(variant, r) ==
    IF r.ok THEN SSome(<<variant, r.val>>, r.pos) ELSE r

\* The Variable built from the result v of parse_variable_declaration after
\* `static` (storage_class set) or `const` (qualifier pushed).
StaticVariable(v) ==
    IF ~v.ok THEN v
    ELSE SSome(<<"Variable", [v.val EXCEPT !.storage_class = SomeOpt("Static")]>>, v.pos)

ConstVariable(v) ==
    IF ~v.ok THEN v
    ELSE SSome(<<"Variable", [v.val EXCEPT !.type_qualifiers = Append(@, "Const")]>>, v.pos)

\* The branch of parse_external_declaration for a leading type keyword.
TypeLedDeclaration(p) == External("Function", parse_function_definition(p))

\* The match of parse_external_declaration, the cursor p past the skipped tokens.
ExternalMatch(p) ==
    IF p >= TLen THEN SNone(p)
    ELSE CASE Kind(p) = "Identifier" /\ Payload(p) = "printf" ->
                External("Printf", parse_printf_statement(p + 1))
           [] Kind(p) = "Struct" -> External("Struct", parse_struct_declaration(p + 1))
           [] Kind(p) = "Typedef" -> External("Typedef", parse_typedef_declaration(p + 1))
           [] Kind(p) = "Enum" -> External("Enum", parse_enum_declaration(p + 1))
           [] Kind(p) = "Static" -> StaticVariable(parse_variable_declaration(p + 1))
           [] Kind(p) = "Const" -> ConstVariable(parse_variable_declaration(p + 1))
           [] Kind(p) \in TypeTokens -> TypeLedDeclaration(p)
           [] OTHER -> SNone(p)

parse_external_declaration(p) ==
    IF p >= TLen THEN SNone(p) ELSE ExternalMatch(SkipTrivia(p))

(***************************************************************************)
(* Preprocessor directives.                                                *)
(***************************************************************************)
\* directive_type.strip_prefix('#').unwrap_or(directive_type): the payload
\* without its '#', whether or not it has one.
StripHash(v) == v.name

RECURSIVE HeaderLoop(_, _)
\* `#include <...>`: the identifiers and dots up to '>' are concatenated, any
\* other token is stepped over.  The header is kept as its pieces.
HeaderLoop(header, p) ==
    IF p < TLen /\ Kind(p) # "GreaterOp"
    THEN HeaderLoop(CASE Kind(p) = "Identifier" -> Append(header, Payload(p))
                      [] Kind(p) = "Dot" -> Append(header, ".")
                      [] OTHER -> header,
                    p + 1)
    ELSE [val |-> header, pos |-> p]

RECURSIVE parse_replacement_list(_, _)
parse_replacement_list(items, p) ==
    IF p >= TLen THEN [vals |-> items, pos |-> p]
    ELSE CASE Kind(p) = "Identifier" ->
                parse_replacement_list(Append(items, <<"Identifier", Payload(p)>>), p + 1)
           [] Kind(p) = "IntLit" ->
                parse_replacement_list(Append(items, <<"Constant", "Integer", Payload(p)>>), p + 1)
           [] Kind(p) = "FloatLit" ->
                parse_replacement_list(Append(items, <<"Constant", "Float", Payload(p)>>), p + 1)
           [] Kind(p) = "StringLit" ->
                parse_replacement_list(Append(items, <<"StringLiteral", Payload(p)>>), p + 1)
           [] OTHER -> [vals |-> items, pos |-> p]

DOk(v, p) == [ok |-> TRUE, val |-> v, err |-> "", pos |-> p, panic |-> FALSE]
DErr(e, p) == [ok |-> FALSE, val |-> <<>>, err |-> e, pos |-> p, panic |-> FALSE]
DPanic(p) == [ok |-> FALSE, val |-> <<>>, err |-> "", pos |-> p, panic |-> TRUE]

\* The match on the directive's name, p the cursor after the Preprocessor
\* token.  The arm for an unrecognized directive formats tokens[pos] without a
\* bounds test.
DirectiveOperands(directive_type, p) ==
    CASE directive_type = "include" ->
            IF p >= TLen THEN DErr("UnexpectedEOF", p)
            ELSE IF Kind(p) = "StringLit" THEN DOk(<<"Include", <<Payload(p)>>>>, p + 1)
            ELSE IF Kind(p) = "LessOp"
            THEN With(HeaderLoop(<<>>, p + 1), LAMBDA header :
                   DOk(<<"Include", header.val>>,
                       IF Is(header.pos, "GreaterOp") THEN header.pos + 1 ELSE header.pos))
            ELSE DErr("UnexpectedToken", p)
      [] directive_type = "define" ->
            IF p >= TLen THEN DErr("UnexpectedEOF", p)
            ELSE IF Kind(p) = "Identifier"
            THEN With(parse_replacement_list(<<>>, p + 1), LAMBDA replacement_list :
                   DOk(<<"Define", Payload(p), replacement_list.vals>>, replacement_list.pos))
            ELSE DErr("ExpectedIdentifier", p)
      [] directive_type \in {"ifdef", "ifndef"} ->
            IF p >= TLen THEN DErr("UnexpectedEOF", p)
            ELSE IF Kind(p) = "Identifier"
            THEN DOk(<<IF directive_type = "ifdef" THEN "Ifdef" ELSE "Ifndef", Payload(p)>>,
                     p + 1)
            ELSE DErr("ExpectedIdentifier", p)
      [] directive_type = "endif" -> DOk(<<"Endif">>, p)
      [] OTHER -> IF p >= TLen THEN DPanic(p) ELSE DErr("UnexpectedToken", p)

\* p0 is the cursor on the Preprocessor token, which is consumed first.
parse_preprocessor_directive(directive_type, p0) == DirectiveOperands(directive_type, p0 + 1)

(***************************************************************************)
(* The diagnostics run after a failed external declaration.                *)
(***************************************************************************)
\* pos + n - 1 < len, and the n tokens at pos are of the kinds pats names.
Window(p, pats) ==
    /\ p + Len(pats) - 1 < TLen
    /\ \A i \in 1..Len(pats) : Kind(p + i - 1) \in pats[i]

RECURSIVE IncompleteScan(_, _, _, _)
\* The scan of check_for_incomplete_functions from q to the end of tokens.
IncompleteScan(q, brace_count, in_function, start_pos) ==
    IF q < TLen
    THEN CASE Kind(q) = "BraceL" -> IncompleteScan(q + 1, brace_count + 1, TRUE, start_pos)
           [] Kind(q) = "BraceR" ->
                IncompleteScan(q + 1, brace_count - 1,
                               IF brace_count - 1 = 0 THEN FALSE ELSE in_function, start_pos)
           [] Kind(q) \in TypeTokens ->
                IncompleteScan(q + 1, brace_count, in_function,
                               IF Is(q + 1, "Identifier") THEN q ELSE start_pos)
           [] OTHER -> IncompleteScan(q + 1, brace_count, in_function, start_pos)
    ELSE [brace_count |-> brace_count, in_function |-> in_function,
          start_pos |-> start_pos, pos |-> q]

\* A faulty variant of check_for_incomplete_functions: start_pos initialised to
\* the start of the token vector instead of the cursor.
check_for_incomplete_functions_FromStart(p) ==
    With(IncompleteScan(p, 0, FALSE, 0), LAMBDA scan :
         IF scan.in_function /\ scan.brace_count > 0
         THEN [err |-> "UnexpectedEOF", pos |-> scan.pos]
         ELSE [err |-> "", pos |-> scan.start_pos])

\* Result: err ("" for Ok(())) and the cursor the method leaves.
check_for_incomplete_functions(p) ==
    With(IncompleteScan(p, 0, FALSE, p), LAMBDA scan :
         IF scan.in_function /\ scan.brace_count > 0
         THEN [err |-> "UnexpectedEOF", pos |-> scan.pos]
         ELSE [err |-> "", pos |-> scan.start_pos])

\* The literal tokens the first window of check_for_specific_errors looks for.
LiteralTokens == {"IntLit", "FloatLit", "StringLit", "BoolLit"}

check_for_specific_errors(p) ==
    LET no(e) == [err |-> e, pos |-> p] IN
    IF p >= TLen THEN no("")
    ELSE IF Window(p, <<TypeTokens, {"AssignOp"}, LiteralTokens>>)
         THEN no("ExpectedIdentifier")
    ELSE IF /\ Window(p, <<{"Identifier"}, {"AssignOp"}>>)
            /\ (p > 0 => Kind(p - 1) \in {"Semicolon", "BraceL", "BraceR"})
         THEN no("ExpectedTypeToken")
    ELSE IF Window(p, <<{"Float"}, {"Identifier"}, {"AssignOp"}, {"Semicolon"}>>)
         THEN no("ExpectedFloatLit")
    ELSE IF Window(p, <<{"Int"}, {"Identifier"}, {"AssignOp"}, {"Semicolon"}>>)
         THEN no("ExpectedIntLit")
    ELSE IF Window(p, <<{"Char"}, {"Mult"}, {"Identifier"}, {"AssignOp"}, {"Semicolon"}>>)
         THEN no("ExpectedStringLit")
    ELSE IF Window(p, <<{"Bool"}, {"Identifier"}, {"AssignOp"}, {"Semicolon"}>>)
         THEN no("ExpectedBoolLit")
    ELSE IF /\ Window(p, <<{"Int"}, {"Identifier"}, {"AssignOp"}, {"IntLit"},
                           {"Plus", "Minus", "Mult", "Div"}>>)
            /\ Is(p + 5, "Semicolon")
         THEN no("FailedToFindToken")
    ELSE check_for_incomplete_functions(p)

(***************************************************************************)
(* parse_translation_unit: one action per arm of the match in its loop.    *)
(***************************************************************************)
Running == [state |-> "running", err |-> ""]
ReturnedOk == [state |-> "Ok", err |-> ""]
ReturnedErr(e) == [state |-> "Err", err |-> e]
Panicked == [state |-> "panic", err |-> ""]

InLoop == outcome.state = "running" /\ pos < TLen

\* Token::Comment
TopComment ==
    /\ InLoop /\ Kind(pos) = "Comment"
    /\ pos' = pos + 1
    /\ branch' = "Comment"
    /\ UNCHANGED <<tokens, preprocessor_list, external_declarations, outcome>>

\* Token::Preprocessor
TopPreprocessor ==
    /\ InLoop /\ Kind(pos) = "Preprocessor"
    /\ With(parse_preprocessor_directive(StripHash(Payload(pos)), pos), LAMBDA d :
         /\ pos' = d.pos
         /\ preprocessor_list' = IF d.ok THEN Append(preprocessor_list, d.val)
                                 ELSE preprocessor_list
         /\ outcome' = IF d.panic THEN Panicked
                       ELSE IF d.ok THEN outcome ELSE ReturnedErr(d.err))
    /\ branch' = "Preprocessor"
    /\ UNCHANGED <<tokens, external_declarations>>

\* Token::Error
TopError ==
    /\ InLoop /\ Kind(pos) = "Error"
    /\ outcome' = ReturnedErr("UnexpectedToken")
    /\ branch' = "Error"
    /\ UNCHANGED <<tokens, pos, preprocessor_list, external_declarations>>

OtherToken == Kind(pos) \notin {"Comment", "Preprocessor", "Error"}

\* `_`, parse_external_declaration returned Some (or panicked on the way).
TopDeclaration ==
    /\ InLoop /\ OtherToken
    /\ With(parse_external_declaration(pos), LAMBDA d :
         /\ d.ok \/ d.panic
         /\ pos' = d.pos
         /\ external_declarations' = IF d.ok THEN Append(external_declarations, d.val)
                                     ELSE external_declarations
         /\ outcome' = IF d.panic THEN Panicked ELSE outcome)
    /\ branch' = "Declaration"
    /\ UNCHANGED <<tokens, preprocessor_list>>

\* `_`, parse_external_declaration returned None: the diagnostics, then one
\* token is skipped (or the loop is left at the end of tokens).
TopRecover ==
    /\ InLoop /\ OtherToken
    /\ With(parse_external_declaration(pos), LAMBDA d :
         /\ ~d.ok /\ ~d.panic
         /\ With(check_for_specific_errors(d.pos), LAMBDA c :
              /\ pos' = IF c.err = "" /\ c.pos < TLen THEN c.pos + 1 ELSE c.pos
              /\ outcome' = IF c.err # "" THEN ReturnedErr(c.err)
                            ELSE IF c.pos < TLen THEN outcome ELSE ReturnedOk))
    /\ branch' = "Recover"
    /\ UNCHANGED <<tokens, preprocessor_list, external_declarations>>

\* The loop condition fails: Ok(TranslationUnit { .. }).
ReturnUnit ==
    /\ outcome.state = "running" /\ pos >= TLen
    /\ outcome' = ReturnedOk
    /\ branch' = "Return"
    /\ UNCHANGED <<tokens, pos, preprocessor_list, external_declarations>>

(***************************************************************************)
(* The token vectors the parser is run on.                                 *)
(***************************************************************************)
\* Bound: every token vector over SmallAlphabet up to this length is an input.
MaxSeqLen == 3

T(k) == Tok(k)
Semi == Tok("Semicolon")

\* T name ( params ) { body }
Fn(ret, name, params, body) ==
    <<T(ret), Ident(name), T("ParenL")>> \o params \o <<T("ParenR"), T("BraceL")>>
        \o body \o <<T("BraceR")>>

BinaryOperatorTokens ==
    {"OrOp", "AndOp", "BitOrOp", "Xor", "BitAndOp", "EqualsOp", "NotEqualsOp",
     "LessOp", "GreaterOp", "LessEqOp", "GreaterEqOp", "LShift", "RShift",
     "Plus", "Minus", "Mult", "Div", "Mod"}

AssignOperatorTokens ==
    {"AssignOp", "PlusAssign", "MinusAssign", "MultAssign", "DivAssign", "ModAssign",
     "LShiftAssign", "RShiftAssign", "AndAssign", "XorAssign", "OrAssign"}

OperandTriples ==
    { <<Ident("a"), Ident("b"), Ident("c")>>, <<IntLit("1"), IntLit("2"), IntLit("3")>> }

\* int f ( ) { x o1 y o2 z ; }
TwoOperatorProgram(xs, o1, o2) ==
    Fn("Int", "f", <<>>, <<xs[1], T(o1), xs[2], T(o2), xs[3], Semi>>)

PrecedenceInputs ==
    { TwoOperatorProgram(xs, o1, o2) :
        xs \in OperandTriples, o1 \in BinaryOperatorTokens, o2 \in BinaryOperatorTokens }

AssignmentInputs ==
    { TwoOperatorProgram(<<Ident("a"), Ident("b"), Ident("c")>>, o1, o2) :
        o1 \in AssignOperatorTokens, o2 \in AssignOperatorTokens }

ForInits == { <<>>, <<Ident("i"), T("AssignOp"), IntLit("0")>>, <<T("Int"), Ident("i")>> }
ForConditions == { <<>>, <<Ident("i"), T("LessOp"), Ident("n")>> }
ForUpdates == { <<>>, <<Ident("i"), T("PlusPlus")>> }
ForBodies == { <<T("BraceL"), T("BraceR")>>, <<T("Break"), Semi>> }

\* for ( init ; cond ; update ) body
ForTokens(i, c, u, b) ==
    <<T("For"), T("ParenL")>> \o i \o <<Semi>> \o c \o <<Semi>> \o u \o <<T("ParenR")>> \o b

\* void f ( ) { for ( init ; cond ; update ) body }
ForProgram(i, c, u, b) == Fn("Void", "f", <<>>, ForTokens(i, c, u, b))

ForInputs ==
    { ForProgram(i, c, u, b) :
        i \in ForInits, c \in ForConditions, u \in ForUpdates, b \in ForBodies }

\* What may follow `T name` at top level.
DeclarationTails ==
    { <<Semi>>,
      <<T("AssignOp"), IntLit("1"), Semi>>,
      <<T("ParenL"), T("ParenR"), Semi>>,
      <<T("ParenL"), T("ParenR"), T("BraceL"), T("BraceR")>>,
      <<T("ParenL"), T("Int"), Ident("a"), T("ParenR"), Semi>>,
      <<T("ParenL"), T("Int"), Ident("a"), T("ParenR"), T("BraceL"),
        T("Return"), Ident("a"), Semi, T("BraceR")>>,
      <<T("ParenL"), T("Int"), Ident("a"), T("Comma"), T("Float"), Ident("b"),
        T("ParenR"), T("BraceL"), T("BraceR")>> }

TopLevelInputs ==
    { pre \o <<T(t), Ident("x")>> \o tail :
        pre \in {<<>>, <<T("Static")>>, <<T("Const")>>},
        t \in TypeTokens, tail \in DeclarationTails }

\* int g ( ) { return 0 ; }    and    void h ( int a ) { a = 1 ; }
GoodFunction == Fn("Int", "g", <<>>, <<T("Return"), IntLit("0"), Semi>>)
GoodFunction2 ==
    Fn("Void", "h", <<T("Int"), Ident("a")>>, <<Ident("a"), T("AssignOp"), IntLit("1"), Semi>>)

\* External declarations the grammar does not accept.
MalformedDeclarations ==
    { <<Semi>>,
      <<T("ParenR")>>,
      <<T("Int"), Semi>>,
      <<T("Int"), T("AssignOp"), IntLit("5"), Semi>>,
      <<Ident("x"), T("AssignOp"), IntLit("5"), Semi>>,
      <<T("Int"), Ident("x"), T("AssignOp"), Semi>>,
      <<T("Float"), Ident("x"), T("AssignOp"), Semi>>,
      <<T("Int"), Ident("x"), T("AssignOp"), IntLit("5"), T("Plus"), Semi>>,
      <<T("Int"), Ident("x"), T("ParenL"), Semi>>,
      <<T("Int"), Ident("x"), T("ParenL"), T("ParenR"), T("BraceL"),
        Ident("y"), T("AssignOp"), Semi, T("BraceR")>>,
      <<T("Static"), Ident("x"), Semi>>,
      <<T("Int"), IntLit("5"), Semi>> }

RecoveryInputs ==
    { m \o GoodFunction : m \in MalformedDeclarations }
        \cup { m \o GoodFunction \o GoodFunction2 : m \in MalformedDeclarations }
        \cup { GoodFunction \o m \o GoodFunction2 : m \in MalformedDeclarations }

InsertAt(s, i, t) == SubSeq(s, 1, i) \o <<t>> \o SubSeq(s, i + 1, Len(s))

ErrorBases ==
    { GoodFunction, GoodFunction \o GoodFunction2,
      <<BlockCommentTok("c")>> \o GoodFunction,
      <<CommentTok("c")>> \o GoodFunction,
      <<T("Static"), T("Int"), Ident("x"), T("AssignOp"), IntLit("1"), Semi>> \o GoodFunction }

ErrorTokenInputs ==
    UNION { { InsertAt(s, i, ErrorTok("bad")) : i \in 0..Len(s) } : s \in ErrorBases }

Include(header) == <<PreprocessorTok("include")>> \o header
AngleHeader == <<T("LessOp"), Ident("stdio"), T("Dot"), Ident("h"), T("GreaterOp")>>

PreprocessorInputs ==
    { Include(AngleHeader) \o GoodFunction,
      Include(<<StringLit("util.h")>>) \o GoodFunction,
      Include(<<T("LessOp"), Ident("stdio"), T("Dot"), Ident("h")>>),
      Include(<<IntLit("1")>>) \o GoodFunction,
      <<PreprocessorTok("define"), Ident("N"), IntLit("10"), StringLit("s"), FloatLit("1.5"),
        Ident("M")>> \o GoodFunction,
      <<PreprocessorTok("define"), IntLit("10")>>,
      <<PreprocessorTok("ifdef"), Ident("N")>> \o GoodFunction \o <<PreprocessorTok("endif")>>,
      <<PreprocessorTok("ifndef"), Ident("N"), PreprocessorTok("endif")>> \o GoodFunction,
      <<PreprocessorTok("ifdef"), Semi>>,
      <<PreprocessorTok("pragma"), Ident("once")>> \o GoodFunction,
      GoodFunction \o <<PreprocessorTok("pragma")>>,
      <<CommentTok("c")>> \o GoodFunction \o <<CommentTok("d")>> }

\* Bodies exercising the statement and expression forms not covered above.
StatementBodies ==
    { <<T("If"), T("ParenL"), Ident("a"), T("ParenR"), T("Return"), Semi,
        T("Else"), T("BraceL"), T("Continue"), Semi, T("BraceR")>>,
      <<T("While"), T("ParenL"), Ident("a"), T("ParenR"), T("BraceL"), T("Break"), Semi,
        T("BraceR")>>,
      <<T("Do"), Ident("a"), T("PlusPlus"), Semi, T("While"), T("ParenL"), Ident("a"),
        T("ParenR"), Semi>>,
      <<T("Switch"), T("ParenL"), Ident("a"), T("ParenR"), T("BraceL"),
        T("Case"), IntLit("1"), T("Colon"), T("Break"), Semi,
        T("Default"), T("Colon"), Ident("a"), T("MinusMinus"), Semi, T("BraceR")>>,
      <<T("Goto"), Ident("l"), Semi>>,
      <<T("Int"), Ident("v"), Semi, T("Float"), Ident("w"), Semi>>,
      <<T("Int"), Ident("v"), T("AssignOp"), IntLit("5"), Semi>>,
      <<Ident("f"), T("ParenL"), Ident("a"), T("Comma"), IntLit("1"), T("ParenR"), Semi>>,
      <<Ident("a"), T("BracketL"), Ident("i"), T("BracketR"), T("Dot"), Ident("m"),
        T("Arrow"), Ident("n"), Semi>>,
      <<Ident("a"), T("Question"), Ident("b"), T("Colon"), Ident("c"), Semi>>,
      <<T("Minus"), T("Not"), T("ParenL"), Ident("a"), T("Plus"), StringLit("s"),
        T("ParenR"), Semi>>,
      <<T("Return"), T("Plus"), Semi>> }

OtherDeclarations ==
    { <<T("Typedef"), T("Int"), Ident("myint"), Semi>>,
      <<T("Enum"), Ident("Color"), T("BraceL"), Ident("RED"), T("Comma"), Ident("GREEN"),
        T("BraceR"), Semi>>,
      <<T("Struct"), Ident("P"), T("BraceL"), T("Int"), Ident("x"), Semi,
        T("Float"), Ident("y"), T("Colon"), IntLit("3"), Semi, T("BraceR"), Semi>>,
      <<Ident("printf"), T("ParenL"), StringLit("hi"), T("Comma"), Ident("x"), T("ParenR"),
        Semi>> }

MiscInputs ==
    { Fn("Int", "f", <<>>, b) : b \in StatementBodies }
        \cup { d \o GoodFunction : d \in OtherDeclarations }

SmallAlphabet ==
    { T("Int"), Ident("f"), T("ParenL"), T("ParenR"), T("BraceL"), T("BraceR"),
      Semi, T("AssignOp"), IntLit("1"), PreprocessorTok("pragma") }

SmallInputs == UNION { [1..n -> SmallAlphabet] : n \in 0..MaxSeqLen }

\* `= 5`, or nothing: the initializer part of a local declaration.
Initializers == { <<>>, <<T("AssignOp"), IntLit("5")>> }

\* T f ( ) { T v init ; } for every local type keyword T.
LocalDeclaration(t, init) == Fn("Int", "f", <<>>, <<T(t), Ident("v")>> \o init \o <<Semi>>)

LocalDeclarationInputs ==
    { LocalDeclaration(t, init) : t \in LocalTypeTokens, init \in Initializers }

Programs ==
    PrecedenceInputs \cup AssignmentInputs \cup ForInputs \cup TopLevelInputs
        \cup RecoveryInputs \cup ErrorTokenInputs \cup PreprocessorInputs \cup MiscInputs
        \cup LocalDeclarationInputs

\* Every program, and every program cut off after any of its tokens.
Prefixes(s) == { SubSeq(s, 1, n) : n \in 0..Len(s) }

(***************************************************************************)
(* The scope analyzer.  all_scopes is the arena; a scope is named by its   *)
(* index in it, and parent = 0 stands for None.                            *)
(***************************************************************************)
\* Bounds: the scopes ever created, and the errors ever recorded.
MaxScopes == 3
MaxErrors == 1

Names == {"x", "y"}

\* SymbolKind values the operations are called with.
VariableKind == [tag |-> "Variable", type_spec |-> "Int", storage_class |-> NoneOpt]
FunctionKind == [tag |-> "Function", return_type |-> "int", parameters |-> <<>>,
                 is_defined |-> TRUE]

\* The kind analyze_function_declaration declares a prototype with.
PrototypeKind == [tag |-> "Function", return_type |-> "int", parameters |-> <<>>,
                  is_defined |-> FALSE]

\* The (name, kind) pairs declare_symbol is called with.
Declarations == { <<"x", VariableKind>>, <<"x", FunctionKind>>, <<"y", VariableKind>> }

EmptySymbols == [n \in {} |-> n]

\* ScopeNode::new with the child on the level of its parent.
ScopeNode_new_ParentLevel(parent) ==
    [symbols |-> EmptySymbols,
     parent |-> parent,
     scope_level |-> IF parent = 0 THEN 0 ELSE scopes[parent].scope_level]

\* ScopeNode::new
ScopeNode_new(parent) ==
    [symbols |-> EmptySymbols,
     parent |-> parent,
     scope_level |-> IF parent = 0 THEN 0 ELSE scopes[parent].scope_level + 1]

\* ScopeNode::lookup_current_scope
lookup_current_scope(scope, name) ==
    IF name \in DOMAIN scopes[scope].symbols
    THEN SomeOpt(scopes[scope].symbols[name]) ELSE NoneOpt

\* A faulty variant of lookup: the scope's own table only, the parent chain
\* not walked.
lookup_OwnTableOnly(scope, name) == lookup_current_scope(scope, name)

RECURSIVE lookup(_, _)
\* ScopeNode::lookup
lookup(scope, name) ==
    IF name \in DOMAIN scopes[scope].symbols THEN SomeOpt(scopes[scope].symbols[name])
    ELSE IF scopes[scope].parent # 0 THEN lookup(scopes[scope].parent, name)
    ELSE NoneOpt

\* ScopeAnalyzer::lookup_symbol
lookup_symbol(name) == lookup(current_scope, name)

\* A faulty variant of RedefinitionIn: the whole chain searched, which would
\* forbid shadowing.
RedefinitionIn_Chain(name) == lookup_symbol(name)

\* The scope declare_symbol tests for an earlier binding of name.
RedefinitionIn(name) == lookup_current_scope(current_scope, name)

\* A faulty variant of RedefinitionError: VariableRedefinition whatever is
\* declared.
RedefinitionError_Variable(name, kind) == <<"VariableRedefinition", name>>

\* The error declare_symbol builds for a redefinition.
RedefinitionError(name, kind) ==
    IF kind.tag = "Function" THEN <<"FunctionPrototypeRedefinition", name>>
    ELSE <<"VariableRedefinition", name>>

Ret(ok, v) == [ok |-> ok, val |-> v]
Call(op, name, kind, ret) == [op |-> op, name |-> name, kind |-> kind, ret |-> ret]

\* ScopeAnalyzer::enter_scope
enter_scope ==
    /\ Len(scopes) < MaxScopes
    /\ scopes' = Append(scopes, ScopeNode_new(current_scope))
    /\ current_scope' = Len(scopes) + 1
    /\ last' = Call("enter_scope", "", <<>>, Ret(TRUE, <<>>))
    /\ UNCHANGED errors

\* ScopeAnalyzer::exit_scope
exit_scope ==
    /\ current_scope' = IF scopes[current_scope].parent # 0
                        THEN scopes[current_scope].parent ELSE current_scope
    /\ last' = Call("exit_scope", "", <<>>, Ret(TRUE, <<>>))
    /\ UNCHANGED <<scopes, errors>>

\* ScopeAnalyzer::declare_symbol
declare_symbol(name, kind) ==
    IF RedefinitionIn(name) # NoneOpt
    THEN /\ Len(errors) < MaxErrors
         /\ errors' = Append(errors, RedefinitionError(name, kind))
         /\ last' = Call("declare_symbol", name, kind,
                         Ret(FALSE, RedefinitionError(name, kind)))
         /\ UNCHANGED <<scopes, current_scope>>
    ELSE /\ scopes' = [scopes EXCEPT ![current_scope].symbols =
                          [n \in DOMAIN @ \cup {name} |->
                              IF n = name
                              THEN [name |-> name, kind |-> kind,
                                    scope_level |-> scopes[current_scope].scope_level]
                              ELSE @[n]]]
         /\ last' = Call("declare_symbol", name, kind, Ret(TRUE, <<>>))
         /\ UNCHANGED <<current_scope, errors>>

\* declare_symbol called with a prototype, where
\* analyze_function_declaration calls it: in the global scope.
DeclarePrototype ==
    /\ current_scope = 1
    /\ declare_symbol("x", PrototypeKind)

\* A call of ScopeAnalyzer::lookup_symbol; the analyzer is left as it is.
LookupSymbol(name) ==
    /\ last' = Call("lookup_symbol", name, <<>>, Ret(TRUE, lookup_symbol(name)))
    /\ UNCHANGED <<scopes, current_scope, errors>>

(***************************************************************************)
(* Specifications.  SpecParse runs parse_translation_unit on every input;  *)
(* SpecScope calls the scope analyzer's operations in every order.         *)
(***************************************************************************)
\* Parser::new
Parser_new(toks) ==
    /\ tokens = toks
    /\ pos = 0
    /\ preprocessor_list = <<>>
    /\ external_declarations = <<>>
    /\ outcome = Running
    /\ branch = "new"

\* ScopeAnalyzer::new
ScopeAnalyzer_new ==
    /\ scopes = <<[symbols |-> EmptySymbols, parent |-> 0, scope_level |-> 0]>>
    /\ current_scope = 1
    /\ errors = <<>>
    /\ last = Call("new", "", <<>>, Ret(TRUE, <<>>))

\* Neither analyze_translation_unit nor check_translation_unit has been called.
NoPass ==
    /\ pass = "none"
    /\ next_decl = 1
    /\ analyze_result = NoneOpt
    /\ checker = NoneOpt
    /\ check_result = NoneOpt

InitParse ==
    /\ \/ \E toks \in SmallInputs : Parser_new(toks)
       \/ \E s \in Programs : \E toks \in Prefixes(s) : Parser_new(toks)
    /\ ScopeAnalyzer_new
    /\ NoPass

NextParse ==
    \/ TopComment /\ UNCHANGED <<scopeVars, passVars>>
    \/ TopPreprocessor /\ UNCHANGED <<scopeVars, passVars>>
    \/ TopError /\ UNCHANGED <<scopeVars, passVars>>
    \/ TopDeclaration /\ UNCHANGED <<scopeVars, passVars>>
    \/ TopRecover /\ UNCHANGED <<scopeVars, passVars>>
    \/ ReturnUnit /\ UNCHANGED <<scopeVars, passVars>>

SpecParse == InitParse /\ [][NextParse]_vars

InitScope == Parser_new(<<>>) /\ ScopeAnalyzer_new /\ NoPass

NextScope ==
    \/ enter_scope /\ UNCHANGED <<parserVars, passVars>>
    \/ exit_scope /\ UNCHANGED <<parserVars, passVars>>
    \/ (\E d \in Declarations : declare_symbol(d[1], d[2])) /\ UNCHANGED <<parserVars, passVars>>
    \/ DeclarePrototype /\ UNCHANGED <<parserVars, passVars>>
    \/ (\E name \in Names : LookupSymbol(name)) /\ UNCHANGED <<parserVars, passVars>>

SpecScope == InitScope /\ [][NextScope]_vars

(***************************************************************************)
(* The traversal of the scope analyzer.  The analyze_* methods are         *)
(* operators from the analyzer before the call to the analyzer after it:   *)
(* an analyzer value is [scopes, current_scope, errors], the fields of     *)
(* ScopeAnalyzer.  The Result of declare_symbol, check_variable_access and *)
(* check_function_call is dropped by every caller in the traversal, so the *)
(* operators return the analyzer only.                                     *)
(***************************************************************************)
Analyzer == [scopes |-> scopes, current_scope |-> current_scope, errors |-> errors]

\* ScopeNode::new, in the arena of an analyzer value.
NewScope(arena, parent) ==
    [symbols |-> EmptySymbols,
     parent |-> parent,
     scope_level |-> IF parent = 0 THEN 0 ELSE arena[parent].scope_level + 1]

RECURSIVE LookupFrom(_, _, _)
\* ScopeNode::lookup, in the arena of an analyzer value.
LookupFrom(arena, scope, name) ==
    IF name \in DOMAIN arena[scope].symbols THEN SomeOpt(arena[scope].symbols[name])
    ELSE IF arena[scope].parent # 0 THEN LookupFrom(arena, arena[scope].parent, name)
    ELSE NoneOpt

\* ScopeAnalyzer::enter_scope
EnterScope(a) ==
    [a EXCEPT !.scopes = Append(@, NewScope(a.scopes, a.current_scope)),
              !.current_scope = Len(a.scopes) + 1]

\* The scope exit_scope makes current.
ExitTarget(a) ==
    IF a.scopes[a.current_scope].parent # 0
    THEN a.scopes[a.current_scope].parent ELSE a.current_scope

\* exit_scope that leaves the current scope as it is.
ExitScope_Stay(a) == a

\* ScopeAnalyzer::exit_scope
ExitScope(a) == [a EXCEPT !.current_scope = ExitTarget(a)]

\* The Symbol declare_symbol inserts.
NewSymbol(a, name, kind) ==
    [name |-> name, kind |-> kind, scope_level |-> a.scopes[a.current_scope].scope_level]

\* ScopeAnalyzer::declare_symbol
DeclareSymbol(a, name, kind) ==
    IF name \in DOMAIN a.scopes[a.current_scope].symbols
    THEN [a EXCEPT !.errors = Append(@, RedefinitionError(name, kind))]
    ELSE [a EXCEPT !.scopes[a.current_scope].symbols =
             [n \in DOMAIN @ \cup {name} |->
                 IF n = name THEN NewSymbol(a, name, kind) ELSE @[n]]]

\* check_variable_access that records nothing.
check_variable_access_Unrecorded(a, name) == a

\* ScopeAnalyzer::check_variable_access
check_variable_access(a, name) ==
    IF LookupFrom(a.scopes, a.current_scope, name) # NoneOpt THEN a
    ELSE [a EXCEPT !.errors = Append(@, <<"UndeclaredVariable", name>>)]

\* ScopeAnalyzer::check_function_call
check_function_call(a, name) ==
    With(LookupFrom(a.scopes, a.current_scope, name), LAMBDA found :
         IF found # NoneOpt /\ found[1].kind.tag = "Function" THEN a
         ELSE [a EXCEPT !.errors = Append(@, <<"UndefinedFunctionCalled", name>>)])

\* How the pieces of the headers are spelled, for str::contains.
Spelling ==
    ("stdio" :> <<"s", "t", "d", "i", "o">>) @@
    ("stdlib" :> <<"s", "t", "d", "l", "i", "b">>) @@
    ("h" :> <<"h">>) @@
    ("stdio.h" :> <<"s", "t", "d", "i", "o", ".", "h">>) @@
    ("util.h" :> <<"u", "t", "i", "l", ".", "h">>) @@
    ("mystdio.h" :> <<"m", "y", "s", "t", "d", "i", "o", ".", "h">>)

\* The characters of one piece of a header: a '.', a '/', or a spelled word.
PieceChars(piece) == IF piece \in DOMAIN Spelling THEN Spelling[piece] ELSE <<piece>>

RECURSIVE HeaderChars(_)
\* The characters of a header, which the parser keeps as its pieces.
HeaderChars(header) ==
    IF header = <<>> THEN <<>> ELSE PieceChars(Head(header)) \o HeaderChars(Tail(header))

\* str::contains
Contains(text, pat) ==
    \E i \in 1..(Len(text) - Len(pat) + 1) : SubSeq(text, i, i + Len(pat) - 1) = pat

\* header.contains("stdio.h")
ContainsStdio(header) ==
    Contains(HeaderChars(header), <<"s", "t", "d", "i", "o", ".", "h">>)

\* preprocessor_list.iter().any(|directive| ...)
has_stdio(directives) ==
    \E i \in DOMAIN directives :
        directives[i][1] = "Include" /\ ContainsStdio(directives[i][2])

\* The SymbolKind printf is declared with.
printf_symbol ==
    [tag |-> "Function", return_type |-> "int", parameters |-> <<>>, is_defined |-> TRUE]

\* ScopeAnalyzer::add_builtin_functions_from_includes
add_builtin_functions_from_includes(a, directives) ==
    IF has_stdio(directives) THEN DeclareSymbol(a, "printf", printf_symbol) ELSE a

RECURSIVE analyze_expression(_, _)
RECURSIVE AnalyzeExpressions(_, _)
RECURSIVE analyze_statement(_, _)
RECURSIVE AnalyzeStatements(_, _)
RECURSIVE AnalyzeInitializers(_, _)
RECURSIVE DeclareParameters(_, _)

\* for arg in args { self.analyze_expression(arg) }
AnalyzeExpressions(a, exprs) ==
    IF exprs = <<>> THEN a
    ELSE AnalyzeExpressions(analyze_expression(a, Head(exprs)), Tail(exprs))

\* ScopeAnalyzer::analyze_expression
analyze_expression(a, expr) ==
    CASE expr[1] = "Identifier" -> check_variable_access(a, expr[2])
      [] expr[1] = "FunctionCall" ->
            AnalyzeExpressions(check_function_call(a, expr[2]), expr[3])
      [] expr[1] = "BinaryOp" -> AnalyzeExpressions(a, <<expr[2], expr[4]>>)
      [] expr[1] = "UnaryOp" -> analyze_expression(a, expr[3])
      [] expr[1] = "Assignment" -> AnalyzeExpressions(a, <<expr[2], expr[4]>>)
      [] expr[1] = "Conditional" -> AnalyzeExpressions(a, <<expr[2], expr[3], expr[4]>>)
      [] expr[1] = "ArrayAccess" -> AnalyzeExpressions(a, <<expr[2], expr[3]>>)
      [] expr[1] \in {"MemberAccess", "PointerAccess", "PostfixOp"} ->
            analyze_expression(a, expr[2])
      [] expr[1] = "Cast" -> analyze_expression(a, expr[3])
      [] expr[1] \in {"Constant", "StringLiteral"} -> a

\* The elements of a List initializer: only the Assignment ones are analyzed.
AnalyzeInitializers(a, inits) ==
    IF inits = <<>> THEN a
    ELSE AnalyzeInitializers(IF Head(inits)[1] = "Assignment"
                             THEN analyze_expression(a, Head(inits)[2]) ELSE a,
                             Tail(inits))

\* The match on initializer.kind in analyze_variable_declaration.
AnalyzeInitializer(a, init) ==
    CASE init[1] = "Assignment" -> analyze_expression(a, init[2])
      [] init[1] = "List" -> AnalyzeInitializers(a, init[2])
      [] init[1] = "Designated" ->
            IF init[3][1] = "Assignment" THEN analyze_expression(a, init[3][2]) ELSE a

\* ScopeAnalyzer::analyze_variable_declaration
analyze_variable_declaration(a, var_decl) ==
    With(DeclareSymbol(a, var_decl.name,
                       [tag |-> "Variable", type_spec |-> var_decl.type_specifier,
                        storage_class |-> var_decl.storage_class]),
         LAMBDA declared :
            IF var_decl.initializer = NoneOpt THEN declared
            ELSE AnalyzeInitializer(declared, var_decl.initializer[1]))

\* ScopeAnalyzer::analyze_function_declaration
analyze_function_declaration(a, func_decl) ==
    DeclareSymbol(a, func_decl.name,
                  [tag |-> "Function", return_type |-> func_decl.return_type,
                   parameters |-> func_decl.parameters, is_defined |-> FALSE])

\* for param in &func_def.parameters { declare_symbol(param.name, Parameter) }
DeclareParameters(a, params) ==
    IF params = <<>> THEN a
    ELSE DeclareParameters(DeclareSymbol(a, Head(params).name,
                                         [tag |-> "Parameter",
                                          param_type |-> Head(params).param_type]),
                           Tail(params))

\* for stmt in statements { self.analyze_statement(stmt) }
AnalyzeStatements(a, stmts) ==
    IF stmts = <<>> THEN a
    ELSE With(analyze_statement(a, Head(stmts)), LAMBDA a1 :
           AnalyzeStatements(a1, Tail(stmts)))

\* ScopeAnalyzer::analyze_function_definition
analyze_function_definition(a, func_def) ==
    With(DeclareSymbol(a, func_def.name,
                       [tag |-> "Function", return_type |-> func_def.return_type,
                        parameters |-> func_def.parameters, is_defined |-> TRUE]),
         LAMBDA a1 :
      With(DeclareParameters(EnterScope(a1), func_def.parameters), LAMBDA a2 :
        With(AnalyzeStatements(a2, func_def.body), LAMBDA a3 : ExitScope(a3))))

\* An Option<Expression> / Option<Box<Statement>> clause, analyzed when Some.
AnalyzeOptExpression(a, opt) == IF opt = NoneOpt THEN a ELSE analyze_expression(a, opt[1])
AnalyzeOptStatement(a, opt) == IF opt = NoneOpt THEN a ELSE analyze_statement(a, opt[1])

\* ScopeAnalyzer::analyze_statement
analyze_statement(a, stmt) ==
    CASE stmt[1] = "Declaration" -> analyze_variable_declaration(a, stmt[2])
      [] stmt[1] = "Assignment" ->
            analyze_expression(check_variable_access(a, stmt[2]), stmt[3])
      [] stmt[1] = "Return" -> AnalyzeOptExpression(a, stmt[2])
      [] stmt[1] = "Expression" -> analyze_expression(a, stmt[2])
      [] stmt[1] = "Block" ->
            With(EnterScope(a), LAMBDA a1 :
              With(AnalyzeStatements(a1, stmt[2]), LAMBDA a2 : ExitScope(a2)))
      [] stmt[1] = "If" ->
            With(analyze_expression(a, stmt[2]), LAMBDA a1 :
              With(analyze_statement(a1, stmt[3]), LAMBDA a2 :
                AnalyzeOptStatement(a2, stmt[4])))
      [] stmt[1] = "While" ->
            With(analyze_expression(a, stmt[2]), LAMBDA a1 : analyze_statement(a1, stmt[3]))
      [] stmt[1] = "For" ->
            With(EnterScope(a), LAMBDA a1 :
              With(AnalyzeOptStatement(a1, stmt[2]), LAMBDA a2 :
                With(AnalyzeOptExpression(a2, stmt[3]), LAMBDA a3 :
                  With(AnalyzeOptExpression(a3, stmt[4]), LAMBDA a4 :
                    With(analyze_statement(a4, stmt[5]), LAMBDA a5 : ExitScope(a5))))))
      [] stmt[1] = "Break" -> a

\* analyze_external_declaration that does nothing once an error is recorded.
analyze_external_declaration_UntilError(a, decl) ==
    IF a.errors # <<>> THEN a
    ELSE CASE decl[1] = "Variable" -> analyze_variable_declaration(a, decl[2])
           [] decl[1] = "Function" -> analyze_function_definition(a, decl[2])
           [] decl[1] = "FunctionDeclaration" -> analyze_function_declaration(a, decl[2])

\* ScopeAnalyzer::analyze_external_declaration
analyze_external_declaration(a, decl) ==
    CASE decl[1] = "Variable" -> analyze_variable_declaration(a, decl[2])
      [] decl[1] = "Function" -> analyze_function_definition(a, decl[2])
      [] decl[1] = "FunctionDeclaration" -> analyze_function_declaration(a, decl[2])

(***************************************************************************)
(* analyze_translation_unit: the pre-pass over the includes, one action    *)
(* per iteration of its loop over external_declarations, and its return.   *)
(***************************************************************************)
\* The analyzer value a becomes the analyzer.
SetAnalyzer(a) ==
    /\ scopes' = a.scopes
    /\ current_scope' = a.current_scope
    /\ errors' = a.errors

\* add_builtin_functions_from_includes(&unit.preprocessor_list)
AnalyzeIncludes ==
    /\ pass = "none"
    /\ SetAnalyzer(add_builtin_functions_from_includes(Analyzer, preprocessor_list))
    /\ pass' = "analyze"
    /\ next_decl' = 1
    /\ UNCHANGED <<parserVars, last, analyze_result, checker, check_result>>

\* for external_decl in &unit.external_declarations
AnalyzeDeclaration ==
    /\ pass = "analyze" /\ next_decl <= Len(external_declarations)
    /\ SetAnalyzer(analyze_external_declaration(Analyzer, external_declarations[next_decl]))
    /\ next_decl' = next_decl + 1
    /\ UNCHANGED <<parserVars, last, pass, analyze_result, checker, check_result>>

\* if self.errors.is_empty() { Ok(()) } else { Err(self.errors.clone()) }
AnalyzeReturn ==
    /\ pass = "analyze" /\ next_decl > Len(external_declarations)
    /\ analyze_result' = SomeOpt(IF errors = <<>> THEN Ret(TRUE, <<>>) ELSE Ret(FALSE, errors))
    /\ pass' = "analyzed"
    /\ UNCHANGED <<parserVars, scopeVars, next_decl, checker, check_result>>

(***************************************************************************)
(* The type checker.  A checker value is [errors, current_return_type,     *)
(* in_loop, current_scope, source_lines], the fields of TypeChecker; its   *)
(* scope_analyzer is the analyzer, which checking leaves as it is.  A Type *)
(* is the name of its variant.  The check_* methods of expressions return  *)
(* the checker after the call and the Option<Type>; check_statement the    *)
(* checker and its bool.                                                   *)
(***************************************************************************)
Type == {"Int", "Float", "Double", "Char", "Short", "Long", "Void", "Bool", "String",
         "Unknown"}

\* ScopeAnalyzer::get_global_scope and get_all_scopes, which the checker calls.
get_global_scope == 1
get_all_scopes == scopes

TR(c, t) == [c |-> c, type |-> t]
SR(c, returns) == [c |-> c, returns |-> returns]

\* TypeChecker::is_numeric_type, is_integer_type
is_numeric_type(t) == t \in {"Int", "Float", "Double", "Char", "Short", "Long"}
is_integer_type(t) == t \in {"Int", "Char", "Short", "Long"}

\* are_types_compatible without the rule for two numeric types.
are_types_compatible_IdenticalOnly(t1, t2) == t1 = t2

\* TypeChecker::are_types_compatible
are_types_compatible(t1, t2) ==
    IF t1 = t2 THEN TRUE
    ELSE IF t1 = "String" \/ t2 = "String" THEN t1 = "String" /\ t2 = "String"
    ELSE IF is_numeric_type(t1) /\ is_numeric_type(t2) THEN TRUE
    ELSE FALSE

\* TypeChecker::wider_type
wider_type(t1, t2) ==
    CASE "Double" \in {t1, t2} -> "Double"
      [] "Float" \in {t1, t2} -> "Float"
      [] "Long" \in {t1, t2} -> "Long"
      [] "Int" \in {t1, t2} -> "Int"
      [] "Short" \in {t1, t2} -> "Short"
      [] OTHER -> "Char"

\* TypeChecker::type_specifier_to_type
type_specifier_to_type(spec) ==
    CASE spec \in {"Int", "Float", "Double", "Char", "Short", "Long", "Void"} -> spec
      [] spec \in {"Signed", "Unsigned"} -> "Int"

\* TypeChecker::string_to_type
string_to_type(type_str) ==
    CASE type_str = "int" -> "Int"
      [] type_str = "float" -> "Float"
      [] type_str = "double" -> "Double"
      [] type_str = "char" -> "Char"
      [] type_str = "short" -> "Short"
      [] type_str = "long" -> "Long"
      [] type_str = "void" -> "Void"
      [] OTHER -> "Unknown"

\* TypeChecker::constant_to_type
constant_to_type(constant) ==
    CASE constant = "Integer" -> "Int"
      [] constant = "Float" -> "Float"
      [] constant = "Char" -> "Char"

\* TypeChecker::find_line_for_context.  A source line is given as the set of
\* the contexts it contains; the line number is 1-based.
find_line_for_context(c, context) ==
    IF context = "" THEN NoneOpt
    ELSE IF \E i \in DOMAIN c.source_lines : context \in c.source_lines[i]
    THEN SomeOpt(CHOOSE i \in DOMAIN c.source_lines :
                    /\ context \in c.source_lines[i]
                    /\ \A j \in 1..(i - 1) : context \notin c.source_lines[j])
    ELSE NoneOpt

\* TypeChecker::record_error
record_error(c, kind, context) ==
    [c EXCEPT !.errors = Append(@, [error |-> kind,
                                    line |-> find_line_for_context(c, context),
                                    context |-> context])]

\* The type a symbol gives a variable: None for a function.
SymbolType(symbol) ==
    CASE symbol.kind.tag = "Variable" -> SomeOpt(type_specifier_to_type(symbol.kind.type_spec))
      [] symbol.kind.tag = "Parameter" -> SomeOpt(string_to_type(symbol.kind.param_type))
      [] OTHER -> NoneOpt

\* TypeChecker::get_variable_type
get_variable_type(c, name) ==
    IF c.current_scope = NoneOpt THEN NoneOpt
    ELSE With(LookupFrom(get_all_scopes, c.current_scope[1], name), LAMBDA found :
              IF found = NoneOpt THEN NoneOpt ELSE SymbolType(found[1]))

\* record_error(kind, context); return Some(Type::Unknown)
Mistyped(c, kind, context) == TR(record_error(c, kind, context), SomeOpt("Unknown"))

\* The match on op in check_binary_operation, the operand types at hand.
BinaryResult(c, op, left_type, right_type) ==
    CASE op \in {"Plus", "Minus", "Mult", "Div"} ->
            IF ~is_numeric_type(left_type) \/ ~is_numeric_type(right_type)
            THEN Mistyped(c, "AttemptedAddOpOnNonNumeric", "+")
            ELSE TR(c, SomeOpt(wider_type(left_type, right_type)))
      [] op = "Mod" ->
            IF ~is_integer_type(left_type) \/ ~is_integer_type(right_type)
            THEN Mistyped(c, "AttemptedAddOpOnNonNumeric", "%")
            ELSE TR(c, SomeOpt(left_type))
      [] op \in {"Less", "LessEq", "Greater", "GreaterEq"} ->
            IF ~is_numeric_type(left_type) \/ ~is_numeric_type(right_type)
            THEN Mistyped(c, "ExpressionTypeMismatch", "comparison")
            ELSE TR(c, SomeOpt("Bool"))
      [] op \in {"Equals", "NotEquals"} ->
            IF ~are_types_compatible(left_type, right_type)
            THEN Mistyped(c, "ExpressionTypeMismatch", "==")
            ELSE TR(c, SomeOpt("Bool"))
      [] op \in {"And", "Or"} ->
            IF left_type # "Bool" \/ right_type # "Bool"
            THEN Mistyped(c, "AttemptedBoolOpOnNonBools", "&&")
            ELSE TR(c, SomeOpt("Bool"))
      [] op \in {"BitAnd", "BitOr", "Xor"} ->
            IF ~is_integer_type(left_type) \/ ~is_integer_type(right_type)
            THEN Mistyped(c, "AttemptedBitOpOnNonNumeric", "&")
            ELSE TR(c, SomeOpt(left_type))
      [] op \in {"LShift", "RShift"} ->
            IF ~is_integer_type(left_type) \/ ~is_integer_type(right_type)
            THEN Mistyped(c, "AttemptedShiftOnNonInt", "<<")
            ELSE TR(c, SomeOpt(left_type))

\* The match on op in check_unary_operation.
UnaryResult(c, op, expr_type) ==
    CASE op \in {"Plus", "Minus"} ->
            IF ~is_numeric_type(expr_type)
            THEN Mistyped(c, "AttemptedAddOpOnNonNumeric", "unary +/-")
            ELSE TR(c, SomeOpt(expr_type))
      [] op = "Not" ->
            IF expr_type # "Bool" THEN Mistyped(c, "AttemptedBoolOpOnNonBools", "!")
            ELSE TR(c, SomeOpt("Bool"))
      [] op = "BitNot" ->
            IF ~is_integer_type(expr_type) THEN Mistyped(c, "AttemptedBitOpOnNonNumeric", "~")
            ELSE TR(c, SomeOpt(expr_type))
      [] op \in {"AddressOf", "Dereference"} -> TR(c, SomeOpt(expr_type))
      [] op \in {"PreIncrement", "PreDecrement"} ->
            IF ~is_numeric_type(expr_type)
            THEN Mistyped(c, "AttemptedAddOpOnNonNumeric", "++/--")
            ELSE TR(c, SomeOpt(expr_type))

\* The match on op in check_assignment_operation.
AssignmentResult(c, op, left_type, right_type) ==
    CASE op = "Assign" ->
            IF ~are_types_compatible(left_type, right_type)
            THEN Mistyped(c, "ExpressionTypeMismatch", "=")
            ELSE TR(c, SomeOpt(left_type))
      [] op \in {"PlusAssign", "MinusAssign", "MultAssign", "DivAssign"} ->
            IF ~is_numeric_type(left_type) \/ ~is_numeric_type(right_type)
            THEN Mistyped(c, "AttemptedAddOpOnNonNumeric", "+= etc")
            ELSE TR(c, SomeOpt(left_type))
      [] op = "ModAssign" ->
            IF ~is_integer_type(left_type) \/ ~is_integer_type(right_type)
            THEN Mistyped(c, "AttemptedAddOpOnNonNumeric", "%=")
            ELSE TR(c, SomeOpt(left_type))
      [] op \in {"LShiftAssign", "RShiftAssign"} ->
            IF ~is_integer_type(left_type) \/ ~is_integer_type(right_type)
            THEN Mistyped(c, "AttemptedShiftOnNonInt", "<<=")
            ELSE TR(c, SomeOpt(left_type))
      [] op \in {"AndAssign", "OrAssign", "XorAssign"} ->
            IF ~is_integer_type(left_type) \/ ~is_integer_type(right_type)
            THEN Mistyped(c, "AttemptedBitOpOnNonNumeric", "&= etc")
            ELSE TR(c, SomeOpt(left_type))

RECURSIVE check_expression(_, _)
RECURSIVE check_initializer(_, _)
RECURSIVE CheckInitializers(_, _)
RECURSIVE CheckArguments(_, _, _, _, _)
RECURSIVE check_statement(_, _)
RECURSIVE CheckStatements(_, _, _)

\* TypeChecker::check_binary_operation
check_binary_operation(c, left, op, right) ==
    With(check_expression(c, left), LAMBDA l :
      IF l.type = NoneOpt THEN l
      ELSE With(check_expression(l.c, right), LAMBDA r :
             IF r.type = NoneOpt THEN r
             ELSE BinaryResult(r.c, op, l.type[1], r.type[1])))

\* TypeChecker::check_unary_operation
check_unary_operation(c, op, expr) ==
    With(check_expression(c, expr), LAMBDA e :
      IF e.type = NoneOpt THEN e ELSE UnaryResult(e.c, op, e.type[1]))

\* TypeChecker::check_assignment_operation
check_assignment_operation(c, left, op, right) ==
    With(check_expression(c, left), LAMBDA l :
      IF l.type = NoneOpt THEN l
      ELSE With(check_expression(l.c, right), LAMBDA r :
             IF r.type = NoneOpt THEN r
             ELSE AssignmentResult(r.c, op, l.type[1], r.type[1])))

\* The end of check_conditional_expression, the branch types at hand.
ConditionalResult(c, true_type, false_type) ==
    IF ~are_types_compatible(true_type, false_type)
    THEN Mistyped(c, "ExpressionTypeMismatch", "?:")
    ELSE TR(c, SomeOpt(true_type))

\* TypeChecker::check_conditional_expression
check_conditional_expression(c, condition, true_expr, false_expr) ==
    With(check_expression(c, condition), LAMBDA cond :
      IF cond.type = NoneOpt THEN TR(cond.c, SomeOpt("Unknown"))
      ELSE With(check_expression(IF cond.type[1] # "Bool"
                                 THEN record_error(cond.c, "ExpectedBooleanExpression", "?:")
                                 ELSE cond.c,
                                 true_expr),
                LAMBDA t :
             IF t.type = NoneOpt THEN TR(t.c, SomeOpt("Unknown"))
             ELSE With(check_expression(t.c, false_expr), LAMBDA f :
                    IF f.type = NoneOpt THEN TR(f.c, SomeOpt("Unknown"))
                    ELSE ConditionalResult(f.c, t.type[1], f.type[1]))))

\* One argument against its parameter: arg is the result of checking it.
ArgumentChecked(arg, param, name) ==
    IF /\ arg.type # NoneOpt
       /\ arg.type[1] # "Unknown"
       /\ ~are_types_compatible(string_to_type(param.param_type), arg.type[1])
    THEN record_error(arg.c, "FnCallParamType", name)
    ELSE arg.c

\* for i in 0..min_len (i is 1-based here)
CheckArguments(c, name, args, parameters, i) ==
    IF i > Len(args) \/ i > Len(parameters) THEN c
    ELSE CheckArguments(ArgumentChecked(check_expression(c, args[i]), parameters[i], name),
                        name, args, parameters, i + 1)

\* The call of a function that checks no argument once the count is wrong.
CallOfFunction_CountFirst(c, name, args, kind) ==
    TR(IF Len(args) # Len(kind.parameters)
       THEN record_error(c, "FnCallParamCount", name)
       ELSE CheckArguments(c, name, args, kind.parameters, 1),
       SomeOpt(string_to_type(kind.return_type)))

\* The call of a symbol that is a function.
CallOfFunction(c, name, args, kind) ==
    TR(CheckArguments(IF Len(args) # Len(kind.parameters)
                      THEN record_error(c, "FnCallParamCount", name) ELSE c,
                      name, args, kind.parameters, 1),
       SomeOpt(string_to_type(kind.return_type)))

\* TypeChecker::check_function_call
TypeChecker_check_function_call(c, name, args) ==
    With(LookupFrom(get_all_scopes, get_global_scope, name), LAMBDA found :
      IF found # NoneOpt /\ found[1].kind.tag = "Function"
      THEN CallOfFunction(c, name, args, found[1].kind)
      ELSE TR(c, NoneOpt))

\* TypeChecker::check_array_access
check_array_access(c, array, index) ==
    With(check_expression(c, index), LAMBDA i :
      IF i.type = NoneOpt THEN TR(i.c, SomeOpt("Unknown"))
      ELSE check_expression(IF ~is_integer_type(i.type[1])
                            THEN record_error(i.c, "ExpressionTypeMismatch", "[]")
                            ELSE i.c,
                            array))

\* Expression::Identifier: get_variable_type(name).or(Some(Type::Unknown))
IdentifierType(c, name) ==
    With(get_variable_type(c, name), LAMBDA t :
         IF t = NoneOpt THEN SomeOpt("Unknown") ELSE t)

\* Expression::Cast
CastResult(e, target_type) ==
    IF e.type # NoneOpt THEN TR(e.c, SomeOpt(type_specifier_to_type(target_type))) ELSE e

\* TypeChecker::check_expression
check_expression(c, expr) ==
    CASE expr[1] = "Identifier" -> TR(c, IdentifierType(c, expr[2]))
      [] expr[1] = "Constant" -> TR(c, SomeOpt(constant_to_type(expr[2])))
      [] expr[1] = "StringLiteral" -> TR(c, SomeOpt("String"))
      [] expr[1] = "BinaryOp" -> check_binary_operation(c, expr[2], expr[3], expr[4])
      [] expr[1] = "UnaryOp" -> check_unary_operation(c, expr[2], expr[3])
      [] expr[1] = "Assignment" -> check_assignment_operation(c, expr[2], expr[3], expr[4])
      [] expr[1] = "Conditional" ->
            check_conditional_expression(c, expr[2], expr[3], expr[4])
      [] expr[1] = "FunctionCall" -> TypeChecker_check_function_call(c, expr[2], expr[3])
      [] expr[1] = "ArrayAccess" -> check_array_access(c, expr[2], expr[3])
      [] expr[1] \in {"MemberAccess", "PointerAccess", "PostfixOp"} ->
            check_expression(c, expr[2])
      [] expr[1] = "Cast" -> CastResult(check_expression(c, expr[3]), expr[2])

\* for init in initializers { self.check_initializer(init); }
CheckInitializers(c, inits) ==
    IF inits = <<>> THEN c
    ELSE CheckInitializers(check_initializer(c, Head(inits)).c, Tail(inits))

\* TypeChecker::check_initializer.  A List checks its elements, then its
\* first element once more for the type.
check_initializer(c, init) ==
    CASE init[1] = "Assignment" -> check_expression(c, init[2])
      [] init[1] = "List" ->
            IF init[2] = <<>> THEN TR(c, NoneOpt)
            ELSE check_initializer(CheckInitializers(c, init[2]), init[2][1])
      [] init[1] = "Designated" -> check_initializer(c, init[3])

\* The test that accepts every initializer.
InitializerChecked_Accepting(init, var_type, name) == init.c

\* The test of the initializer's type init against the declared type.
InitializerChecked(init, var_type, name) ==
    IF /\ init.type # NoneOpt
       /\ init.type[1] # "Unknown"
       /\ ~are_types_compatible(var_type, init.type[1])
    THEN record_error(init.c, "ExpressionTypeMismatch", name)
    ELSE init.c

\* The declared type, recorded as an error when it is Unknown.
DeclaredTypeChecked(c, var_type, name) ==
    IF var_type = "Unknown" THEN record_error(c, "ErroneousVarDecl", name) ELSE c

\* TypeChecker::check_variable_declaration
check_variable_declaration(c, var_decl) ==
    With(type_specifier_to_type(var_decl.type_specifier), LAMBDA var_type :
      With(DeclaredTypeChecked(c, var_type, var_decl.name), LAMBDA c1 :
        IF var_decl.initializer = NoneOpt THEN c1
        ELSE InitializerChecked(check_initializer(c1, var_decl.initializer[1]),
                                var_type, var_decl.name)))

\* The least member of a nonempty set of scope indices: what .iter().find
\* returns, the arena being in order of creation.
FirstOf(found) ==
    IF found = {} THEN NoneOpt
    ELSE SomeOpt(CHOOSE i \in found : \A j \in found : i <= j)

\* The scope check_function_definition finds for the function: the first of
\* level 1 that binds every parameter name.
function_scope(func_def) ==
    FirstOf({i \in DOMAIN get_all_scopes :
               /\ get_all_scopes[i].scope_level = 1
               /\ \A p \in DOMAIN func_def.parameters :
                     func_def.parameters[p].name \in DOMAIN get_all_scopes[i].symbols})

\* The scope a Block or a For finds: the first child of the current scope.
child_scope(current) ==
    FirstOf({i \in DOMAIN get_all_scopes :
               /\ get_all_scopes[i].scope_level = get_all_scopes[current].scope_level + 1
               /\ get_all_scopes[i].parent = current})

\* The checker moved into scope found, when there is one.
InScope(c, found) ==
    IF found = NoneOpt THEN c ELSE [c EXCEPT !.current_scope = found]

\* The checker at the start of a Block or a For.
InChildScope(c) ==
    IF c.current_scope = NoneOpt THEN c ELSE InScope(c, child_scope(c.current_scope[1]))

\* Statement::Assignment, the checked right-hand side at hand.
AssignmentChecked(e, var_type, var_name) ==
    IF /\ e.type # NoneOpt
       /\ e.type[1] # "Unknown"
       /\ ~are_types_compatible(var_type, e.type[1])
    THEN record_error(e.c, "ExpressionTypeMismatch", var_name)
    ELSE e.c

\* Statement::Return of a value in a non-void function.
ReturnValueChecked(e, ret_type) ==
    IF /\ e.type # NoneOpt
       /\ e.type[1] # "Unknown"
       /\ ~are_types_compatible(ret_type, e.type[1])
    THEN record_error(e.c, "ErroneousReturnType", "return")
    ELSE e.c

\* Statement::Return that is checked in a Void function only.
CheckReturnStatement_VoidOnly(c, expr_opt) ==
    IF c.current_return_type = NoneOpt THEN c
    ELSE IF c.current_return_type[1] = "Void"
    THEN IF expr_opt # NoneOpt THEN record_error(c, "ErroneousReturnType", "return") ELSE c
    ELSE c

\* Statement::Return
CheckReturnStatement(c, expr_opt) ==
    IF c.current_return_type = NoneOpt THEN c
    ELSE IF c.current_return_type[1] = "Void"
    THEN IF expr_opt # NoneOpt THEN record_error(c, "ErroneousReturnType", "return") ELSE c
    ELSE IF expr_opt # NoneOpt
    THEN ReturnValueChecked(check_expression(c, expr_opt[1]), c.current_return_type[1])
    ELSE record_error(c, "ErroneousReturnType", "return")

\* The test of a condition that lets Unknown pass for Bool.
ConditionChecked_UnknownPasses(cond, context) ==
    IF cond.type # NoneOpt /\ cond.type[1] \notin {"Bool", "Unknown"}
    THEN record_error(cond.c, "NonBooleanCondStmt", context)
    ELSE cond.c

\* The condition of an if, a while or a for, checked.
ConditionChecked(cond, context) ==
    IF cond.type # NoneOpt /\ cond.type[1] # "Bool"
    THEN record_error(cond.c, "NonBooleanCondStmt", context)
    ELSE cond.c

\* The body of a loop with in_loop left set after it.
LoopBody_Unrestored(c, body) ==
    check_statement([c EXCEPT !.in_loop = TRUE], body).c

\* The body of a loop: in_loop is set for it and restored after it.
LoopBody(c, body) ==
    [check_statement([c EXCEPT !.in_loop = TRUE], body).c EXCEPT !.in_loop = c.in_loop]

\* Statement::If with `then_returns || else_returns`.
IfBranches_EitherArm(c, then_stmt, else_stmt) ==
    With(check_statement(c, then_stmt), LAMBDA t :
      IF else_stmt = NoneOpt THEN SR(t.c, FALSE)
      ELSE With(check_statement(t.c, else_stmt[1]), LAMBDA e :
             SR(e.c, t.returns \/ e.returns)))

\* Statement::If, from the checked condition on.
IfBranches(c, then_stmt, else_stmt) ==
    With(check_statement(c, then_stmt), LAMBDA t :
      IF else_stmt = NoneOpt THEN SR(t.c, FALSE)
      ELSE With(check_statement(t.c, else_stmt[1]), LAMBDA e :
             SR(e.c, t.returns /\ e.returns)))

\* Statement::For, from its scope on.
ForParts(c, init, condition, update, body) ==
    With(IF init = NoneOpt THEN c ELSE check_statement(c, init[1]).c, LAMBDA c1 :
      With(IF condition = NoneOpt THEN c1
           ELSE ConditionChecked(check_expression(c1, condition[1]), "for"), LAMBDA c2 :
        With(IF update = NoneOpt THEN c2 ELSE check_expression(c2, update[1]).c, LAMBDA c3 :
          LoopBody(c3, body))))

\* for stmt in statements { if self.check_statement(stmt) { has_return = true; } }
CheckStatements(c, statements, has_return) ==
    IF statements = <<>> THEN SR(c, has_return)
    ELSE With(check_statement(c, Head(statements)), LAMBDA s :
           CheckStatements(s.c, Tail(statements), has_return \/ s.returns))

\* The result r of a Block or a For with the scope left where the statement
\* moved it.
Restored_ScopeKept(r, saved_scope) == r

\* The result r of a Block or a For, the saved scope restored.
Restored(r, saved_scope) ==
    SR([r.c EXCEPT !.current_scope = saved_scope], r.returns)

\* TypeChecker::check_statement
check_statement(c, stmt) ==
    CASE stmt[1] = "Declaration" -> SR(check_variable_declaration(c, stmt[2]), FALSE)
      [] stmt[1] = "Assignment" ->
            With(get_variable_type(c, stmt[2]), LAMBDA var_type :
              IF var_type = NoneOpt THEN SR(c, FALSE)
              ELSE SR(AssignmentChecked(check_expression(c, stmt[3]), var_type[1], stmt[2]),
                      FALSE))
      [] stmt[1] = "Return" -> SR(CheckReturnStatement(c, stmt[2]), TRUE)
      [] stmt[1] = "Expression" -> SR(check_expression(c, stmt[2]).c, FALSE)
      [] stmt[1] = "Block" ->
            Restored(CheckStatements(InChildScope(c), stmt[2], FALSE), c.current_scope)
      [] stmt[1] = "If" ->
            IfBranches(ConditionChecked(check_expression(c, stmt[2]), "if"),
                       stmt[3], stmt[4])
      [] stmt[1] = "While" ->
            SR(LoopBody(ConditionChecked(check_expression(c, stmt[2]), "while"), stmt[3]),
               FALSE)
      [] stmt[1] = "For" ->
            Restored(SR(ForParts(InChildScope(c), stmt[2], stmt[3], stmt[4], stmt[5]), FALSE),
                     c.current_scope)
      [] stmt[1] = "Break" ->
            SR(IF ~c.in_loop THEN record_error(c, "ErroneousBreak", "break") ELSE c, FALSE)

\* The end of check_function_definition: body is the checked body, saved
\* the checker before the call.
FunctionChecked(body, func_def, saved) ==
    [(IF /\ body.c.current_return_type # NoneOpt
         /\ body.c.current_return_type[1] # "Void"
         /\ ~body.returns
      THEN record_error(body.c, "ReturnStmtNotFound", func_def.name)
      ELSE body.c)
     EXCEPT !.in_loop = saved.in_loop,
            !.current_return_type = NoneOpt,
            !.current_scope = saved.current_scope]

\* TypeChecker::check_function_definition
check_function_definition(c, func_def) ==
    FunctionChecked(
        CheckStatements(
            InScope([c EXCEPT !.current_return_type =
                                 SomeOpt(string_to_type(func_def.return_type)),
                              !.in_loop = FALSE],
                    function_scope(func_def)),
            func_def.body, FALSE),
        func_def, c)

\* TypeChecker::check_external_declaration
check_external_declaration(c, decl) ==
    CASE decl[1] = "Variable" -> check_variable_declaration(c, decl[2])
      [] decl[1] = "Function" -> check_function_definition(c, decl[2])
      [] decl[1] = "FunctionDeclaration" -> c

\* TypeChecker::new
TypeChecker_new(source_lines) ==
    [errors |-> <<>>,
     current_return_type |-> NoneOpt,
     in_loop |-> FALSE,
     current_scope |-> SomeOpt(get_global_scope),
     source_lines |-> source_lines]

\* TypeChecker::new on the analyzer, once its analysis has returned.
CheckStart ==
    /\ pass = "analyzed"
    /\ checker' = SomeOpt(TypeChecker_new(<<>>))
    /\ pass' = "check"
    /\ next_decl' = 1
    /\ UNCHANGED <<parserVars, scopeVars, analyze_result, check_result>>

\* One turn of the loop of check_translation_unit.
CheckDeclaration ==
    /\ pass = "check"
    /\ next_decl <= Len(external_declarations)
    /\ checker' = SomeOpt(check_external_declaration(checker[1],
                                                     external_declarations[next_decl]))
    /\ next_decl' = next_decl + 1
    /\ UNCHANGED <<parserVars, scopeVars, pass, analyze_result, check_result>>

\* The return of check_translation_unit.
CheckReturn ==
    /\ pass = "check"
    /\ next_decl > Len(external_declarations)
    /\ check_result' = SomeOpt(IF checker[1].errors = <<>> THEN Ret(TRUE, <<>>)
                               ELSE Ret(FALSE, checker[1].errors))
    /\ pass' = "checked"
    /\ UNCHANGED <<parserVars, scopeVars, next_decl, checker, analyze_result>>

(***************************************************************************)
(* The translation units analyze_translation_unit and                      *)
(* check_translation_unit are run on.                                      *)
(***************************************************************************)
\* Bound: a statement is put inside up to this many enclosing statements.
MaxNest == 2
\* Bound: a call of printf is given up to this many arguments.
MaxArgs == 2

IntConstant == <<"Constant", "Integer", "1">>
BoolExpression == <<"BinaryOp", IntConstant, "Less", IntConstant>>

\* An expression of each Type, and under None one that has no type: the
\* name u and the function g are declared by no unit.
TypedExpression ==
    [Int |-> IntConstant,
     Float |-> <<"Constant", "Float", "3.5">>,
     Char |-> <<"Constant", "Char", "a">>,
     Double |-> <<"Cast", "Double", IntConstant>>,
     Short |-> <<"Cast", "Short", IntConstant>>,
     Long |-> <<"Cast", "Long", IntConstant>>,
     Void |-> <<"Cast", "Void", IntConstant>>,
     Bool |-> BoolExpression,
     String |-> <<"StringLiteral", "hi">>,
     Unknown |-> <<"Identifier", "u">>,
     None |-> <<"FunctionCall", "g", <<>>>>]

TypeSpecifiers ==
    {"Int", "Float", "Double", "Char", "Short", "Long", "Signed", "Unsigned", "Void"}

VarDecl(type_specifier, name, initializer) ==
    [storage_class |-> NoneOpt, type_qualifiers |-> <<>>,
     type_specifier |-> type_specifier, name |-> name, initializer |-> initializer]

FunctionDefinition(return_type, name, parameters, body) ==
    <<"Function", [return_type |-> return_type, name |-> name,
                   parameters |-> parameters, body |-> body]>>

FunctionPrototype(return_type, name, parameters) ==
    <<"FunctionDeclaration", [return_type |-> return_type, name |-> name,
                              parameters |-> parameters]>>

Unit(directives, declarations) ==
    [preprocessor_list |-> directives, external_declarations |-> declarations]

\* The statements a statement is put inside.
Wrappers == {"Block", "Else", "While", "For"}

Wrap(w, stmt) ==
    CASE w = "Block" -> <<"Block", <<stmt>>>>
      [] w = "Else" -> <<"If", BoolExpression, <<"Block", <<>>>>, SomeOpt(stmt)>>
      [] w = "While" -> <<"While", BoolExpression, stmt>>
      [] w = "For" -> <<"For", NoneOpt, NoneOpt, NoneOpt, stmt>>

RECURSIVE Nest(_, _)
\* stmt inside the statements of path, the first of them outermost.
Nest(path, stmt) ==
    IF path = <<>> THEN stmt ELSE Wrap(Head(path), Nest(Tail(path), stmt))

PathsOver(wrappers) == UNION { [1..n -> wrappers] : n \in 0..MaxNest }
Paths == PathsOver(Wrappers)

\* void f() { e1 == e2; } and void f() { e1 != e2; }, e1 and e2 of every type.
EqualityUnit(op, t1, t2) ==
    Unit(<<>>, << FunctionDefinition("void", "f", <<>>,
                    << <<"Expression", <<"BinaryOp", TypedExpression[t1], op,
                                          TypedExpression[t2]>>>> >>) >>)

EqualityUnits ==
    { EqualityUnit(op, t1, t2) : op \in {"Equals", "NotEquals"}, t1 \in Type, t2 \in Type }

\* The initializer kinds.
InitializerForms == {"Assignment", "List", "Designated"}

InitializerOf(form, expr) ==
    CASE form = "Assignment" -> <<"Assignment", expr>>
      [] form = "List" -> <<"List", << <<"Assignment", expr>>, <<"Assignment", IntConstant>> >> >>
      [] form = "Designated" -> <<"Designated", <<"Member", "m">>, <<"Assignment", expr>>>>

\* T x = e; at top level, and void f() { T x = e; }
InitializerUnit(spec, form, t, local) ==
    IF local
    THEN Unit(<<>>, << FunctionDefinition("void", "f", <<>>,
                         << <<"Declaration",
                              VarDecl(spec, "x",
                                      SomeOpt(InitializerOf(form, TypedExpression[t])))>> >>) >>)
    ELSE Unit(<<>>, << <<"Variable",
                         VarDecl(spec, "x",
                                 SomeOpt(InitializerOf(form, TypedExpression[t])))>> >>)

InitializerUnits ==
    { InitializerUnit(spec, form, t, local) :
        spec \in TypeSpecifiers, form \in InitializerForms,
        t \in DOMAIN TypedExpression, local \in BOOLEAN }

\* A body with one error in it for the checker: a value returned from a
\* void function.
FaultyBody == <<"Block", << <<"Return", SomeOpt(IntConstant)>> >> >>

ConditionKinds == {"If", "IfElse", "While", "For"}

Conditioned(kind, condition) ==
    CASE kind = "If" -> <<"If", condition, FaultyBody, NoneOpt>>
      [] kind = "IfElse" -> <<"If", condition, FaultyBody, SomeOpt(FaultyBody)>>
      [] kind = "While" -> <<"While", condition, FaultyBody>>
      [] kind = "For" -> <<"For", NoneOpt, SomeOpt(condition), NoneOpt, FaultyBody>>

\* void f() { ... if (e) { return 1; } ... }, e of every type
ConditionUnit(kind, t, path) ==
    Unit(<<>>, << FunctionDefinition("void", "f", <<>>,
                    << Nest(path, Conditioned(kind, TypedExpression[t])) >>) >>)

ConditionUnits ==
    { ConditionUnit(kind, t, path) :
        kind \in ConditionKinds, t \in DOMAIN TypedExpression, path \in Paths }

ReturnTypes == {"void", "int", "double"}

ReturnValues == {NoneOpt} \cup { SomeOpt(TypedExpression[t]) : t \in DOMAIN TypedExpression }

\* T f() { ... return e; ... }
ReturningUnit(return_type, value, path) ==
    Unit(<<>>, << FunctionDefinition(return_type, "f", <<>>,
                    << Nest(path, <<"Return", value>>) >>) >>)

ReturnUnits ==
    { ReturningUnit(return_type, value, path) :
        return_type \in ReturnTypes, value \in ReturnValues, path \in Paths }

\* The lists of directives: the header between < > comes in pieces, the one
\* between quotes in one piece.
Directives ==
    { <<>>,
      << <<"Include", <<"stdio", ".", "h">>>> >>,
      << <<"Include", <<"stdio.h">>>> >>,
      << <<"Include", <<"stdlib", ".", "h">>>> >>,
      << <<"Include", <<"util.h">>>> >>,
      << <<"Include", <<"mystdio.h">>>> >>,
      << <<"Define", "N", <<IntConstant>>>> >>,
      << <<"Include", <<"stdlib", ".", "h">>>>, <<"Include", <<"stdio", ".", "h">>>> >> }

\* The argument lists of a call of printf.
Arguments ==
    { [i \in 1..n |-> IF i = 1 THEN <<"StringLiteral", "hi">> ELSE IntConstant] :
        n \in 0..MaxArgs }

PrintfCall(args) == <<"FunctionCall", "printf", args>>

\* void f() { ... printf(a1, .., an); ... }, int x = printf(a1, .., an); and
\* the first with a prototype of printf before it.
PrintfUnits ==
    { Unit(directives, << FunctionDefinition("void", "f", <<>>,
                            << Nest(path, <<"Expression", PrintfCall(args)>>) >>) >>) :
        directives \in Directives, args \in Arguments, path \in Paths }
    \cup
    { Unit(directives, << <<"Variable",
                            VarDecl("Int", "x", SomeOpt(<<"Assignment", PrintfCall(args)>>))>> >>) :
        directives \in Directives, args \in Arguments }
    \cup
    { Unit(directives, << FunctionPrototype("int", "printf", <<>>),
                          FunctionDefinition("void", "f", <<>>,
                            << <<"Expression", PrintfCall(args)>> >>) >>) :
        directives \in Directives, args \in Arguments }

\* The ways a statement uses a name.
UseForms ==
    {"Target", "AssignLeft", "Operand", "Return", "Condition", "Argument", "Initializer"}

UseOf(form, name) ==
    CASE form = "Target" -> <<"Assignment", name, IntConstant>>
      [] form = "AssignLeft" ->
            <<"Expression", <<"Assignment", <<"Identifier", name>>, "Assign", IntConstant>>>>
      [] form = "Operand" ->
            <<"Expression", <<"BinaryOp", IntConstant, "Plus", <<"Identifier", name>>>>>>
      [] form = "Return" -> <<"Return", SomeOpt(<<"Identifier", name>>)>>
      [] form = "Condition" ->
            <<"If", <<"BinaryOp", <<"Identifier", name>>, "Less", IntConstant>>,
              <<"Block", <<>>>>, NoneOpt>>
      [] form = "Argument" ->
            <<"Expression", <<"FunctionCall", "f", << <<"Identifier", name>> >> >>>>
      [] form = "Initializer" ->
            <<"Declaration",
              VarDecl("Int", "w", SomeOpt(<<"Assignment", <<"Identifier", name>>>>))>>

\* Where the unit declares the name x that f uses.
Bindings ==
    {"None", "Global", "GlobalAfter", "Parameter", "Local", "LocalAfter", "Sibling",
     "Prototype"}

\* The statement after the use: u = 1;
Follow == <<"Assignment", "u", IntConstant>>

NameUseBody(binding, use) ==
    CASE binding = "Local" -> << <<"Declaration", VarDecl("Int", "x", NoneOpt)>>, use, Follow >>
      [] binding = "LocalAfter" ->
            << use, <<"Declaration", VarDecl("Int", "x", NoneOpt)>>, Follow >>
      [] binding = "Sibling" ->
            << <<"Block", << <<"Declaration", VarDecl("Int", "x", NoneOpt)>> >> >>, use, Follow >>
      [] OTHER -> << use, Follow >>

NameUseFunction(binding, use) ==
    FunctionDefinition("void", "f",
                       IF binding = "Parameter" THEN << [param_type |-> "int", name |-> "x"] >>
                       ELSE <<>>,
                       NameUseBody(binding, use))

\* void f(..) { .. a use of x ..; u = 1; } with x declared as binding says
NameUseUnit(form, binding, path) ==
    Unit(<<>>,
         CASE binding = "Global" ->
                 << <<"Variable", VarDecl("Int", "x", NoneOpt)>>,
                    NameUseFunction(binding, Nest(path, UseOf(form, "x"))) >>
           [] binding = "GlobalAfter" ->
                 << NameUseFunction(binding, Nest(path, UseOf(form, "x"))),
                    <<"Variable", VarDecl("Int", "x", NoneOpt)>> >>
           [] binding = "Prototype" ->
                 << FunctionPrototype("int", "x", <<>>),
                    NameUseFunction(binding, Nest(path, UseOf(form, "x"))) >>
           [] OTHER -> << NameUseFunction(binding, Nest(path, UseOf(form, "x"))) >>)

NameUsePaths == PathsOver({"Block", "While", "For"})

NameUseUnits ==
    { NameUseUnit(form, binding, path) :
        form \in UseForms, binding \in Bindings, path \in NameUsePaths }

\* Bound: a unit of plain declarations has up to this many of them.
MaxDecls == 3

\* int x; int y; int x(); void h() { u = 1; }
PlainDeclarations ==
    { <<"Variable", VarDecl("Int", "x", NoneOpt)>>,
      <<"Variable", VarDecl("Int", "y", NoneOpt)>>,
      FunctionPrototype("int", "x", <<>>),
      FunctionDefinition("void", "h", <<>>, << Follow >>) }

DeclarationUnits ==
    { Unit(<<>>, declarations) :
        declarations \in UNION { [1..n -> PlainDeclarations] : n \in 1..MaxDecls } }

\* The statements a return or a break is put inside: those of Wrappers, an if
\* without else (Then) and an if with the statement in both arms (Both).
Arms == Wrappers \cup {"Then", "Both"}

Arm(w, stmt) ==
    CASE w = "Then" -> <<"If", BoolExpression, stmt, NoneOpt>>
      [] w = "Both" -> <<"If", BoolExpression, stmt, SomeOpt(stmt)>>
      [] OTHER -> Wrap(w, stmt)

RECURSIVE NestIn(_, _)
\* stmt inside the statements of path, the first of them outermost.
NestIn(path, stmt) ==
    IF path = <<>> THEN stmt ELSE Arm(Head(path), NestIn(Tail(path), stmt))

\* The statements a return is put inside, and those a break is put inside.
ReturnPaths == PathsOver(Arms \ {"For"})
BreakPaths == PathsOver(Arms \ {"Then", "Else"})

PlainStatement == <<"Expression", IntConstant>>

\* return; in a void function, return 1; in another
PlainReturn(return_type) ==
    <<"Return", IF return_type = "void" THEN NoneOpt ELSE SomeOpt(IntConstant)>>

\* What follows the nested statement in the body: nothing or a return.
Tails == {"None", "Return"}

TailOf(tail, return_type) ==
    CASE tail = "None" -> <<>>
      [] tail = "Return" -> << PlainReturn(return_type) >>

\* T f() { ... return 1; ... } and T f() { ... 1; ... }, followed by nothing
\* or by return 1;
PlacementUnit(return_type, path, returning, tail) ==
    Unit(<<>>, << FunctionDefinition(return_type, "f", <<>>,
                    << NestIn(path, IF returning THEN PlainReturn(return_type)
                                    ELSE PlainStatement) >>
                    \o TailOf(tail, return_type)) >>)

PlacementUnits ==
    { PlacementUnit(return_type, path, returning, tail) :
        return_type \in {"void", "int"}, path \in ReturnPaths,
        returning \in BOOLEAN, tail \in Tails }

\* The statements with a break: break; alone, and a block of a loop and a
\* break after it, the loop empty or of a break.
BreakForms == {"Alone", "AfterWhile", "AfterFor", "AfterBreakingWhile"}

BreakOf(form) ==
    CASE form = "Alone" -> <<"Break">>
      [] form = "AfterWhile" ->
            <<"Block", << <<"While", BoolExpression, <<"Block", <<>>>>>>, <<"Break">> >> >>
      [] form = "AfterFor" ->
            <<"Block", << <<"For", NoneOpt, NoneOpt, NoneOpt, <<"Block", <<>>>>>>,
                          <<"Break">> >> >>
      [] form = "AfterBreakingWhile" ->
            <<"Block", << <<"While", BoolExpression, <<"Break">>>>, <<"Break">> >> >>

\* void f() { ... break; ... }, alone or after void g() { while (1 < 1) break; }
BreakUnit(form, path, second) ==
    Unit(<<>>,
         (IF second
          THEN << FunctionDefinition("void", "g", <<>>,
                     << <<"While", BoolExpression, <<"Break">>>> >>) >>
          ELSE <<>>)
         \o << FunctionDefinition("void", "f", <<>>, << NestIn(path, BreakOf(form)) >>) >>)

BreakUnits ==
    { BreakUnit(form, path, second) :
        form \in BreakForms, path \in BreakPaths, second \in BOOLEAN }

\* The functions a call is made of: R f(P1 a1, .., Pp ap), as a prototype and
\* as a definition with an empty body.
CalleeForms == {"Prototype", "Definition"}
CalleeReturnTypes == {"int", "void"}
ParameterTypes == <<"int", "char", "int", "char">>
ParameterNames == <<"a", "b", "c", "d">>

\* (), (int a), (int a, char b), ..
ParameterLists ==
    { [i \in 1..p |-> [param_type |-> ParameterTypes[i], name |-> ParameterNames[i]]] :
        p \in 0..MaxArgs }

Callee(form, return_type, parameters) ==
    IF form = "Prototype" THEN FunctionPrototype(return_type, "f", parameters)
    ELSE FunctionDefinition(return_type, "f", parameters, <<>>)

\* The types of the arguments of the call.
ArgumentTypes == {"Int", "String", "Unknown"}

ArgumentLists ==
    UNION { { [i \in 1..n |-> TypedExpression[types[i]]] : types \in [1..n -> ArgumentTypes] } :
              n \in 0..MaxArgs }

\* R f(P1 a1, .., Pp ap); int x = f(e1, .., en);
CallUnit(form, return_type, parameters, args) ==
    Unit(<<>>, << Callee(form, return_type, parameters),
                  <<"Variable",
                    VarDecl("Int", "x", SomeOpt(<<"Assignment", <<"FunctionCall", "f", args>>>>))>> >>)

CallUnits ==
    { CallUnit(form, return_type, parameters, args) :
        form \in CalleeForms, return_type \in CalleeReturnTypes,
        parameters \in ParameterLists, args \in ArgumentLists }

\* The root causes: "hi" + 1, an operator applied to the wrong types, and
\* u, an identifier that is not declared.
IllTyped == <<"BinaryOp", <<"StringLiteral", "hi">>, "Plus", IntConstant>>
Undeclared == <<"Identifier", "u">>

\* The expressions a root cause is put inside: e + 1, -e, x = e,
\* 1 < 1 ? e : 1 and e ? 1 : 1
Enclosers == {"Binary", "Unary", "Assign", "TernaryArm", "TernaryCondition"}

Enclose(k, e) ==
    CASE k = "Binary" -> <<"BinaryOp", e, "Plus", IntConstant>>
      [] k = "Unary" -> <<"UnaryOp", "Minus", e>>
      [] k = "Assign" -> <<"Assignment", <<"Identifier", "x">>, "Assign", e>>
      [] k = "TernaryArm" -> <<"Conditional", BoolExpression, e, IntConstant>>
      [] k = "TernaryCondition" -> <<"Conditional", e, IntConstant, IntConstant>>

RECURSIVE EncloseIn(_, _)
\* e inside the expressions of path, the first of them outermost.
EncloseIn(path, e) ==
    IF path = <<>> THEN e ELSE Enclose(Head(path), EncloseIn(Tail(path), e))

EnclosingPaths == PathsOver(Enclosers)

\* The statements an expression is put in: e; if (e) {} while (e) {} and
\* for (; e;) {}
Positions == {"Expression", "If", "While", "For"}

Positioned(position, e) ==
    CASE position = "Expression" -> <<"Expression", e>>
      [] position = "If" -> <<"If", e, <<"Block", <<>>>>, NoneOpt>>
      [] position = "While" -> <<"While", e, <<"Block", <<>>>>>>
      [] position = "For" -> <<"For", NoneOpt, SomeOpt(e), NoneOpt, <<"Block", <<>>>>>>

\* void f() { int x; ... root ... }
CascadeUnit(root, path, position) ==
    Unit(<<>>, << FunctionDefinition("void", "f", <<>>,
                    << <<"Declaration", VarDecl("Int", "x", NoneOpt)>>,
                       Positioned(position, EncloseIn(path, root)) >>) >>)

IllTypedCascades ==
    { CascadeUnit(IllTyped, path, position).external_declarations :
        path \in EnclosingPaths, position \in Positions }

UndeclaredCascades ==
    { CascadeUnit(Undeclared, path, position).external_declarations :
        path \in EnclosingPaths, position \in Positions }

CascadeUnits ==
    { Unit(<<>>, declarations) : declarations \in IllTypedCascades \cup UndeclaredCascades }

\* The constructs "hi" + 1 is nested in: an argument of a call of g, which
\* is not declared; the second argument of a call of h, which has one
\* parameter; the right-hand side of an assignment to u, which is not
\* declared; and the same in a call of h with one argument and in an
\* assignment to x, which is declared.
HidingForms ==
    {"UndeclaredCallee", "BeyondCount", "UndeclaredTarget", "DeclaredCallee", "DeclaredTarget"}

Hiding(form) ==
    CASE form = "UndeclaredCallee" -> <<"Expression", <<"FunctionCall", "g", << IllTyped >> >>>>
      [] form = "BeyondCount" ->
            <<"Expression", <<"FunctionCall", "h", << IntConstant, IllTyped >> >>>>
      [] form = "UndeclaredTarget" -> <<"Assignment", "u", IllTyped>>
      [] form = "DeclaredCallee" -> <<"Expression", <<"FunctionCall", "h", << IllTyped >> >>>>
      [] form = "DeclaredTarget" -> <<"Assignment", "x", IllTyped>>

\* void h(int a); void f() { int x; ... the construct ... }
HidingUnit(form, path) ==
    Unit(<<>>, << FunctionPrototype("void", "h", << [param_type |-> "int", name |-> "a"] >>),
                  FunctionDefinition("void", "f", <<>>,
                    << <<"Declaration", VarDecl("Int", "x", NoneOpt)>>,
                       Nest(path, Hiding(form)) >>) >>)

HidingDeclarations ==
    { HidingUnit(form, path).external_declarations :
        form \in HidingForms, path \in NameUsePaths }

HidingUnits == { Unit(<<>>, declarations) : declarations \in HidingDeclarations }

IntParameter(name) == [param_type |-> "int", name |-> name]

\* void name(parameters) { int x; used = "hi"; }, with the declaration when
\* local says so and the assignment when used is a name.
TwinFunction(name, parameters, local, used) ==
    FunctionDefinition("void", name, parameters,
        (IF local THEN << <<"Declaration", VarDecl("Int", "x", NoneOpt)>> >> ELSE <<>>)
        \o (IF used = "" THEN <<>>
            ELSE << <<"Assignment", used, <<"StringLiteral", "hi">>>> >>))

\* Two functions, f that uses no name and g that assigns to x or to a, in
\* either order.
TwinUnit(f_parameters, f_local, g_parameters, g_local, used, g_first) ==
    Unit(<<>>,
         IF g_first
         THEN << TwinFunction("g", g_parameters, g_local, used),
                 TwinFunction("f", f_parameters, f_local, "") >>
         ELSE << TwinFunction("f", f_parameters, f_local, ""),
                 TwinFunction("g", g_parameters, g_local, used) >>)

TwinDeclarations ==
    { TwinUnit(f_parameters, f_local, g_parameters, g_local, used, g_first).external_declarations :
        f_parameters \in {<<>>, << IntParameter("a") >>}, f_local \in BOOLEAN,
        g_parameters \in {<<>>, << IntParameter("a") >>, << IntParameter("b") >>},
        g_local \in BOOLEAN, used \in {"x", "a"}, g_first \in BOOLEAN }

TwinUnits == { Unit(<<>>, declarations) : declarations \in TwinDeclarations }

\* A block or a for with its own scope: { int x; x = "hi"; } and
\* for (int x; ;) x = "hi"; with the declaration when local says so and the
\* assignment when used does.
Scoped(kind, local, used) ==
    IF kind = "Block"
    THEN <<"Block",
           (IF local THEN << <<"Declaration", VarDecl("Int", "x", NoneOpt)>> >> ELSE <<>>)
           \o (IF used THEN << <<"Assignment", "x", <<"StringLiteral", "hi">>>> >> ELSE <<>>)>>
    ELSE <<"For",
           IF local THEN SomeOpt(<<"Declaration", VarDecl("Int", "x", NoneOpt)>>) ELSE NoneOpt,
           NoneOpt, NoneOpt,
           IF used THEN <<"Assignment", "x", <<"StringLiteral", "hi">>>> ELSE PlainStatement>>

\* The block or for that assigns to x, after a sibling block or for when
\* first names one.
Siblings(first, first_local, second, second_local) ==
    (IF first = "None" THEN <<>> ELSE << Scoped(first, first_local, FALSE) >>)
    \o << Scoped(second, second_local, TRUE) >>

\* int x; void f() { ... { } { x = "hi"; } ... }, the siblings in the body
\* of f or in a block inside the statements of path
SiblingUnit(global, first, first_local, second, second_local, path) ==
    Unit(<<>>,
         (IF global THEN << <<"Variable", VarDecl("Int", "x", NoneOpt)>> >> ELSE <<>>)
         \o << FunctionDefinition("void", "f", <<>>,
                 IF path = <<>> THEN Siblings(first, first_local, second, second_local)
                 ELSE << Nest(path, <<"Block",
                                      Siblings(first, first_local, second, second_local)>>) >>) >>)

\* The siblings are in the body of f or one statement down.
SiblingPaths == { <<>>, <<"Block">>, <<"While">>, <<"For">> }

SiblingDeclarations ==
    { SiblingUnit(global, first, first_local, second, second_local, path).external_declarations :
        global \in BOOLEAN, first \in {"None", "Block", "For"}, first_local \in BOOLEAN,
        second \in {"Block", "For"}, second_local \in BOOLEAN, path \in SiblingPaths }

SiblingUnits == { Unit(<<>>, declarations) : declarations \in SiblingDeclarations }

Units ==
    EqualityUnits \cup InitializerUnits \cup ConditionUnits \cup ReturnUnits
    \cup PrintfUnits \cup NameUseUnits \cup DeclarationUnits
    \cup PlacementUnits
    \cup BreakUnits
    \cup CallUnits
    \cup CascadeUnits
    \cup HidingUnits
    \cup TwinUnits
    \cup SiblingUnits

\* A parser that has returned Ok(unit).
Parsed(unit) ==
    /\ tokens = <<>>
    /\ pos = 0
    /\ preprocessor_list = unit.preprocessor_list
    /\ external_declarations = unit.external_declarations
    /\ outcome = ReturnedOk
    /\ branch = "Return"

InitAnalysis ==
    /\ \E unit \in Units : Parsed(unit)
    /\ ScopeAnalyzer_new
    /\ NoPass

NextAnalysis ==
    \/ AnalyzeIncludes
    \/ AnalyzeDeclaration
    \/ AnalyzeReturn
    \/ CheckStart
    \/ CheckDeclaration
    \/ CheckReturn

SpecAnalysis == InitAnalysis /\ [][NextAnalysis]_vars

(***************************************************************************)
(* Properties of the parser, stated over the runs of SpecParse.            *)
(***************************************************************************)
\* parse_translation_unit has returned or panicked / has returned.
Finished == outcome.state # "running"
Returned == outcome.state \in {"Ok", "Err"}

\* external_declarations holds a declaration of this variant and name.
Declares(variant, name) ==
    \E i \in DOMAIN external_declarations :
        /\ external_declarations[i][1] = variant
        /\ external_declarations[i][2].name = name

\* C1: on every token sequence parse_translation_unit returns Ok or Err and
\* never indexes tokens at or past its length; no run ends in a panic.
C1_NeverPanics == outcome.state # "panic"

\* C2: a malformed external declaration in front of the well-formed function
\* g does not make parse_translation_unit return Err, and g is in
\* external_declarations of the unit it returns.
C2_RecoveryKeepsFollowingFunctions ==
    \A m \in MalformedDeclarations :
        (tokens = m \o GoodFunction /\ Returned)
            => (outcome.state = "Ok" /\ Declares("Function", "g"))

HasErrorToken == \E i \in DOMAIN tokens : tokens[i].k = "Error"

\* C3: with a lexer Error token anywhere in the token sequence,
\* parse_translation_unit never returns Ok.
C3_ErrorTokenNeverOk == HasErrorToken => outcome.state # "Ok"

\* C4: at top level `T x ( ... ) { ... }` yields a Function, `T x ( ... ) ;` a
\* FunctionDeclaration and `T x ;` a Variable, for every type keyword T.
C4_TopLevelForms ==
    \A t \in TypeTokens :
        /\ (tokens = <<T(t), Ident("x"), T("ParenL"), T("ParenR"), T("BraceL"), T("BraceR")>>
                /\ Finished)
              => (outcome.state = "Ok" /\ Declares("Function", "x"))
        /\ (tokens = <<T(t), Ident("x"), T("ParenL"), T("ParenR"), Semi>> /\ Finished)
              => (outcome.state = "Ok" /\ Declares("FunctionDeclaration", "x"))
        /\ (tokens = <<T(t), Ident("x"), Semi>> /\ Finished)
              => (outcome.state = "Ok" /\ Declares("Variable", "x"))

\* The level of each binary operator token, loosest first, and the
\* BinaryOperator it stands for, as the grammar of MiniC has them.
PrecedenceOf ==
    [OrOp |-> 1, AndOp |-> 2, BitOrOp |-> 3, Xor |-> 4, BitAndOp |-> 5,
     EqualsOp |-> 6, NotEqualsOp |-> 6,
     LessOp |-> 7, GreaterOp |-> 7, LessEqOp |-> 7, GreaterEqOp |-> 7,
     LShift |-> 8, RShift |-> 8, Plus |-> 9, Minus |-> 9,
     Mult |-> 10, Div |-> 10, Mod |-> 10]

BinaryOperatorOf ==
    [OrOp |-> "Or", AndOp |-> "And", BitOrOp |-> "BitOr", Xor |-> "Xor",
     BitAndOp |-> "BitAnd", EqualsOp |-> "Equals", NotEqualsOp |-> "NotEquals",
     LessOp |-> "Less", GreaterOp |-> "Greater", LessEqOp |-> "LessEq",
     GreaterEqOp |-> "GreaterEq", LShift |-> "LShift", RShift |-> "RShift",
     Plus |-> "Plus", Minus |-> "Minus", Mult |-> "Mult", Div |-> "Div", Mod |-> "Mod"]

AssignmentOperatorOf ==
    [AssignOp |-> "Assign", PlusAssign |-> "PlusAssign", MinusAssign |-> "MinusAssign",
     MultAssign |-> "MultAssign", DivAssign |-> "DivAssign", ModAssign |-> "ModAssign",
     LShiftAssign |-> "LShiftAssign", RShiftAssign |-> "RShiftAssign",
     AndAssign |-> "AndAssign", XorAssign |-> "XorAssign", OrAssign |-> "OrAssign"]

\* The expression an operand token is.
Operand(tok) ==
    IF tok.k = "Identifier" THEN <<"Identifier", tok.v>> ELSE <<"Constant", "Integer", tok.v>>

\* The unit of `int f ( ) { e ; }` for the expression e.
UnitOfExpression(e) ==
    << <<"Function", [return_type |-> "int", name |-> "f", parameters |-> <<>>,
                      body |-> << <<"Expression", e>> >>]>> >>

\* tokens is `int f ( ) { x o1 y o2 z ; }` with o1, o2 from ops.
IsTwoOperatorProgram(ops) ==
    /\ Len(tokens) = 12
    /\ tokens[7].k \in ops /\ tokens[9].k \in ops
    /\ tokens = TwoOperatorProgram(<<tokens[6], tokens[8], tokens[10]>>,
                                   tokens[7].k, tokens[9].k)

\* x o1 (y o2 z)    and    (x o1 y) o2 z
RightNested(node, op) ==
    <<node, Operand(tokens[6]), op[tokens[7].k],
      <<node, Operand(tokens[8]), op[tokens[9].k], Operand(tokens[10])>>>>
LeftNested(node, op) ==
    <<node, <<node, Operand(tokens[6]), op[tokens[7].k], Operand(tokens[8])>>,
      op[tokens[9].k], Operand(tokens[10])>>

\* C5: for binary operators of two different levels, `a o1 b o2 c` parses with
\* the operator of the tighter level applied first: as a o1 (b o2 c) when o2 is
\* the tighter one and as (a o1 b) o2 c when o1 is.
C5_BinaryPrecedence ==
    (IsTwoOperatorProgram(BinaryOperatorTokens) /\ Finished
        /\ PrecedenceOf[tokens[7].k] # PrecedenceOf[tokens[9].k])
    => /\ outcome.state = "Ok"
       /\ external_declarations =
            UnitOfExpression(IF PrecedenceOf[tokens[7].k] < PrecedenceOf[tokens[9].k]
                             THEN RightNested("BinaryOp", BinaryOperatorOf)
                             ELSE LeftNested("BinaryOp", BinaryOperatorOf))

\* `1 + 2 * 3` has been parsed as BinaryOp(1, Plus, BinaryOp(2, Mult, 3)).
C5_Witness ==
    /\ tokens = TwoOperatorProgram(<<IntLit("1"), IntLit("2"), IntLit("3")>>, "Plus", "Mult")
    /\ outcome.state = "Ok"
    /\ external_declarations =
         UnitOfExpression(<<"BinaryOp", <<"Constant", "Integer", "1">>, "Plus",
                            <<"BinaryOp", <<"Constant", "Integer", "2">>, "Mult",
                              <<"Constant", "Integer", "3">>>>>>)

\* C6: assignment is right-associative: for all assignment operators o1 and o2
\* (the same one in particular), `a o1 b o2 c` parses as
\* Assignment(a, o1, Assignment(b, o2, c)).
C6_AssignmentRightAssociative ==
    (IsTwoOperatorProgram(AssignOperatorTokens) /\ Finished)
    => /\ outcome.state = "Ok"
       /\ external_declarations =
            UnitOfExpression(RightNested("Assignment", AssignmentOperatorOf))

\* `a = b = c` has been parsed as Assign(a, Assign(b, c)).
C6_Witness ==
    /\ tokens = TwoOperatorProgram(<<Ident("a"), Ident("b"), Ident("c")>>,
                                   "AssignOp", "AssignOp")
    /\ outcome.state = "Ok"
    /\ external_declarations =
         UnitOfExpression(<<"Assignment", <<"Identifier", "a">>, "Assign",
                            <<"Assignment", <<"Identifier", "b">>, "Assign",
                              <<"Identifier", "c">>>>>>)

\* The unit is the one function f, whose body is one For with exactly the
\* clauses i, c, u that are not empty.
IsForUnit(i, c, u) ==
    /\ Len(external_declarations) = 1
    /\ external_declarations[1][1] = "Function"
    /\ Len(external_declarations[1][2].body) = 1
    /\ external_declarations[1][2].body[1][1] = "For"
    /\ (external_declarations[1][2].body[1][2] = NoneOpt) <=> (i = <<>>)
    /\ (external_declarations[1][2].body[1][3] = NoneOpt) <=> (c = <<>>)
    /\ (external_declarations[1][2].body[1][4] = NoneOpt) <=> (u = <<>>)

\* C7: `for ( init ; cond ; update ) body` parses to a For for every
\* combination of present and absent clauses, an absent clause being None.
C7_ForClauses ==
    \A i \in ForInits, c \in ForConditions, u \in ForUpdates, b \in ForBodies :
        (tokens = ForProgram(i, c, u, b) /\ Finished)
            => (outcome.state = "Ok" /\ IsForUnit(i, c, u))

\* C8: the cursor never decreases from one iteration of the top-level loop to
\* the next, and an iteration after which the loop goes on has advanced it.
C8_CursorAdvances ==
    [][pos' >= pos /\ (outcome'.state = "running" => pos' > pos)]_vars

\* After `;` failed to parse in front of g, check_for_incomplete_functions
\* has reset the cursor to the `int` of g and the loop has skipped it.
C8_Witness ==
    /\ tokens = <<Semi>> \o GoodFunction
    /\ branch = "Recover"
    /\ outcome.state = "running"
    /\ pos = 2

(***************************************************************************)
(* Properties of the scope analyzer, stated over the runs of SpecScope.    *)
(***************************************************************************)
Bound(scope, name) == name \in DOMAIN scopes[scope].symbols

\* C9: declare_symbol returns a redefinition error exactly when the name is
\* bound in the current scope itself; otherwise it returns Ok and the name is
\* bound in the current scope afterwards, whatever the enclosing scopes bind.
C9_RedefinitionOnlyInCurrentScope ==
    [][last'.op = "declare_symbol" =>
          /\ last'.ret.ok <=> ~Bound(current_scope, last'.name)
          /\ ~last'.ret.ok =>
                last'.ret.val[1] \in {"VariableRedefinition", "FunctionPrototypeRedefinition"}
          /\ last'.ret.ok =>
                /\ current_scope' = current_scope
                /\ last'.name \in DOMAIN scopes'[current_scope].symbols]_vars

\* A declaration two levels down has just succeeded for a name that both
\* enclosing scopes bind.
C9_Witness ==
    /\ last.op = "declare_symbol" /\ last.ret.ok
    /\ scopes[current_scope].scope_level = 2
    /\ Bound(scopes[current_scope].parent, last.name)
    /\ Bound(1, last.name)

RECURSIVE ChainFrom(_)
\* The scopes from scope up to the global scope.
ChainFrom(scope) ==
    {scope} \cup (IF scopes[scope].parent = 0 THEN {} ELSE ChainFrom(scopes[scope].parent))

\* The scopes on the chain from the current scope that bind name.
Binders(name) == { s \in ChainFrom(current_scope) : Bound(s, name) }

\* The binding of name in the innermost of them, None when there is none.
NearestBinding(name) ==
    IF Binders(name) = {} THEN NoneOpt
    ELSE SomeOpt(scopes[CHOOSE s \in Binders(name) :
                           \A o \in Binders(name) :
                               scopes[s].scope_level >= scopes[o].scope_level].symbols[name])

\* C10: lookup_symbol returns the binding of the name in the nearest scope on
\* the chain from the current scope to the global scope, and None exactly when
\* no scope on that chain binds it.
C10_LookupNearestOnChain ==
    /\ \A name \in Names : lookup_symbol(name) = NearestBinding(name)
    /\ last.op = "lookup_symbol" => last.ret.val = NearestBinding(last.name)

\* x has just been looked up in a nested scope that shadows the global x and
\* the inner binding came back, while y, bound only in a scope off the chain,
\* is not found.
C10_Witness ==
    /\ last.op = "lookup_symbol" /\ last.name = "x"
    /\ current_scope # 1
    /\ Bound(current_scope, "x") /\ Bound(1, "x")
    /\ last.ret.val = SomeOpt(scopes[current_scope].symbols["x"])
    /\ scopes[current_scope].symbols["x"] # scopes[1].symbols["x"]
    /\ \E s \in DOMAIN scopes : s \notin ChainFrom(current_scope) /\ Bound(s, "y")
    /\ lookup_symbol("y") = NoneOpt

(***************************************************************************)
(* Properties of the scope tree, stated over the runs of SpecScope.        *)
(***************************************************************************)
\* The symbols of a scope are keyed by their names and carry its level.
SymbolsOwned(scope) ==
    \A n \in DOMAIN scopes[scope].symbols :
        /\ scopes[scope].symbols[n].name = n
        /\ scopes[scope].symbols[n].scope_level = scopes[scope].scope_level

\* C11: in every reachable state of the scope analyzer exactly one scope has
\* no parent, the global scope, of level 0; every other scope has one parent,
\* a scope of the analyzer, and is one level below it; a scope binds a name to
\* one symbol, the symbol of that name; and every symbol carries the level of
\* the scope that holds it.
C11_ScopeTreeInvariant ==
    /\ scopes[1].parent = 0
    /\ scopes[1].scope_level = 0
    /\ \A s \in DOMAIN scopes :
          /\ (scopes[s].parent = 0) <=> (s = 1)
          /\ s # 1 => /\ scopes[s].parent \in DOMAIN scopes
                      /\ scopes[s].scope_level = scopes[scopes[s].parent].scope_level + 1
          /\ SymbolsOwned(s)

\* A scope two levels below the global one that binds a name, next to a
\* scope in between.
C11_Witness ==
    /\ Len(scopes) = 3
    /\ scopes[3].scope_level = 2
    /\ scopes[3].symbols # EmptySymbols
    /\ scopes[2].scope_level = 1

(***************************************************************************)
(* Properties of the scope analysis, stated over the runs of SpecAnalysis. *)
(***************************************************************************)
\* The analyzer with scope s as its current scope.
AnalyzerAt(s) == [Analyzer EXCEPT !.current_scope = s]

\* b is a with one scope more, a child of a's current scope, as current scope.
EnteredChild(a, b) ==
    /\ Len(b.scopes) = Len(a.scopes) + 1
    /\ SubSeq(b.scopes, 1, Len(a.scopes)) = a.scopes
    /\ b.current_scope = Len(b.scopes)
    /\ b.scopes[b.current_scope].parent = a.current_scope
    /\ b.scopes[b.current_scope].symbols = EmptySymbols
    /\ b.errors = a.errors

\* b is a with the parent of a's current scope as current scope, and a itself
\* when a's current scope is the global one.
ExitedToParent(a, b) ==
    /\ b.scopes = a.scopes
    /\ b.errors = a.errors
    /\ b.current_scope = IF a.current_scope = 1 THEN 1
                         ELSE a.scopes[a.current_scope].parent

AnalysisReturned == pass \in {"analyzed", "check", "checked"}

\* C12: enter_scope creates a new child of the current scope and makes it the
\* current scope; exit_scope makes the parent of the current scope the current
\* scope and changes nothing when the current scope is the global one; and
\* once analyze_translation_unit has returned the current scope is the global
\* scope again.
C12_EnterExitBalanced ==
    /\ \A s \in DOMAIN scopes :
          /\ EnteredChild(AnalyzerAt(s), EnterScope(AnalyzerAt(s)))
          /\ ExitedToParent(AnalyzerAt(s), ExitScope(AnalyzerAt(s)))
    /\ AnalysisReturned => current_scope = 1

\* The analysis has returned from a unit whose function has a statement two
\* scopes below the scope of its parameters.
C12_Witness ==
    /\ AnalysisReturned
    /\ current_scope = 1
    /\ \E s \in DOMAIN scopes : scopes[s].scope_level = 3

\* The unit is one of NameUseUnits: its function ends with the statement
\* u = 1; after another one.
IsNameUseUnit ==
    \E i \in DOMAIN external_declarations :
        /\ external_declarations[i][1] = "Function"
        /\ Len(external_declarations[i][2].body) >= 2
        /\ external_declarations[i][2].body[Len(external_declarations[i][2].body)] = Follow

\* The bindings of x that a scope on the chain holds at the point of the use.
BoundAtUse == {"Global", "Parameter", "Local", "Prototype"}

\* The errors stated for such a unit: the use of x when nothing binds x at
\* that point, then the use of u in the statement after it.
StatedUseErrors(binding) ==
    IF binding \in BoundAtUse THEN << <<"UndeclaredVariable", "u">> >>
    ELSE << <<"UndeclaredVariable", "x">>, <<"UndeclaredVariable", "u">> >>

\* C13: a use of a name, as the target of an assignment statement or as an
\* identifier in an expression, that no scope on the chain from the current
\* scope binds at that point of the traversal is recorded as
\* UndeclaredVariable(name), a use that one of them binds is not, and the
\* analysis goes on with the statements after it.
C13_UndeclaredUseRecorded ==
    (pass = "analyzed" /\ IsNameUseUnit) =>
        \A form \in UseForms, binding \in Bindings, path \in NameUsePaths :
            external_declarations = NameUseUnit(form, binding, path).external_declarations
                => errors = StatedUseErrors(binding)

\* The analysis has returned from a unit that uses x as an assignment target
\* inside a block inside a for, x declared in a sibling block only.
C13_Witness ==
    /\ pass = "analyzed"
    /\ external_declarations =
          NameUseUnit("Target", "Sibling", <<"For", "Block">>).external_declarations
    /\ errors = << <<"UndeclaredVariable", "x">>, <<"UndeclaredVariable", "u">> >>

IsPrefix(s, t) == Len(s) <= Len(t) /\ SubSeq(t, 1, Len(s)) = s

\* The unit consists of plain declarations.
IsDeclarationUnit ==
    \A i \in DOMAIN external_declarations : external_declarations[i] \in PlainDeclarations

\* The errors stated for plain declaration d, the names in seen declared
\* before it: the redefinition of its name, then the use of u in its body.
StatedDeclarationErrors(d, seen) ==
    (IF d[2].name \in seen
     THEN << <<IF d[1] = "Variable" THEN "VariableRedefinition"
               ELSE "FunctionPrototypeRedefinition", d[2].name>> >>
     ELSE <<>>)
    \o (IF d[1] = "Function" THEN << <<"UndeclaredVariable", "u">> >> ELSE <<>>)

RECURSIVE StatedErrors(_, _)
\* The errors stated for plain declarations, in source order.
StatedErrors(declarations, seen) ==
    IF declarations = <<>> THEN <<>>
    ELSE StatedDeclarationErrors(Head(declarations), seen)
         \o StatedErrors(Tail(declarations), seen \cup {Head(declarations)[2].name})

\* analyze_translation_unit has just returned: every declaration was visited,
\* and the result is Ok exactly when no error was recorded, Err with the
\* recorded errors otherwise.
ReturnedAllErrors ==
    pass = "analyzed" =>
        /\ analyze_result # NoneOpt
        /\ next_decl = Len(external_declarations) + 1
        /\ analyze_result[1].ok <=> errors = <<>>
        /\ ~analyze_result[1].ok => analyze_result[1].val = errors
        /\ IsDeclarationUnit => errors = StatedErrors(external_declarations, {})

\* C14: analyze_translation_unit visits every external declaration in source
\* order whatever errors the earlier ones gave: the list of errors only grows,
\* the errors of the declarations are in it in source order, and the call
\* returns Ok exactly when the list is empty and Err with the whole list
\* otherwise.
C14_AccumulatesAllErrors ==
    [][IsPrefix(errors, errors') /\ ReturnedAllErrors']_vars

\* The analysis has returned Err with an error of the first declaration and
\* one of the third.
C14_Witness ==
    /\ pass = "analyzed"
    /\ analyze_result # NoneOpt
    /\ ~analyze_result[1].ok
    /\ external_declarations =
          << FunctionDefinition("void", "h", <<>>, << Follow >>),
             <<"Variable", VarDecl("Int", "x", NoneOpt)>>,
             FunctionPrototype("int", "x", <<>>) >>
    /\ analyze_result[1].val =
          << <<"UndeclaredVariable", "u">>, <<"FunctionPrototypeRedefinition", "x">> >>

RECURSIVE CallsInExpression(_, _)
RECURSIVE CallsInExpressions(_, _)
RECURSIVE CallsInInitializer(_, _)
RECURSIVE CallsInInitializers(_, _)
RECURSIVE CallsInStatement(_, _)
RECURSIVE CallsInStatements(_, _)

\* The argument lists of the calls of name in an expression, outermost first.
CallsInExpression(name, expr) ==
    CASE expr[1] \in {"Identifier", "Constant", "StringLiteral"} -> <<>>
      [] expr[1] = "FunctionCall" ->
            (IF expr[2] = name THEN <<expr[3]>> ELSE <<>>) \o CallsInExpressions(name, expr[3])
      [] expr[1] \in {"BinaryOp", "Assignment"} ->
            CallsInExpressions(name, <<expr[2], expr[4]>>)
      [] expr[1] = "Conditional" -> CallsInExpressions(name, <<expr[2], expr[3], expr[4]>>)
      [] expr[1] = "ArrayAccess" -> CallsInExpressions(name, <<expr[2], expr[3]>>)
      [] expr[1] \in {"UnaryOp", "Cast"} -> CallsInExpression(name, expr[3])
      [] expr[1] \in {"MemberAccess", "PointerAccess", "PostfixOp"} ->
            CallsInExpression(name, expr[2])

CallsInExpressions(name, exprs) ==
    IF exprs = <<>> THEN <<>>
    ELSE CallsInExpression(name, Head(exprs)) \o CallsInExpressions(name, Tail(exprs))

CallsInInitializer(name, init) ==
    CASE init[1] = "Assignment" -> CallsInExpression(name, init[2])
      [] init[1] = "List" -> CallsInInitializers(name, init[2])
      [] init[1] = "Designated" -> CallsInInitializer(name, init[3])

CallsInInitializers(name, inits) ==
    IF inits = <<>> THEN <<>>
    ELSE CallsInInitializer(name, Head(inits)) \o CallsInInitializers(name, Tail(inits))

CallsInOption(name, opt) == IF opt = NoneOpt THEN <<>> ELSE CallsInExpression(name, opt[1])

CallsInVarDecl(name, var_decl) ==
    IF var_decl.initializer = NoneOpt THEN <<>>
    ELSE CallsInInitializer(name, var_decl.initializer[1])

CallsInStatement(name, stmt) ==
    CASE stmt[1] = "Declaration" -> CallsInVarDecl(name, stmt[2])
      [] stmt[1] = "Assignment" -> CallsInExpression(name, stmt[3])
      [] stmt[1] = "Return" -> CallsInOption(name, stmt[2])
      [] stmt[1] = "Expression" -> CallsInExpression(name, stmt[2])
      [] stmt[1] = "Block" -> CallsInStatements(name, stmt[2])
      [] stmt[1] = "If" ->
            CallsInExpression(name, stmt[2]) \o CallsInStatement(name, stmt[3])
            \o CallsInStatements(name, stmt[4])
      [] stmt[1] = "While" ->
            CallsInExpression(name, stmt[2]) \o CallsInStatement(name, stmt[3])
      [] stmt[1] = "For" ->
            CallsInStatements(name, stmt[2]) \o CallsInOption(name, stmt[3])
            \o CallsInOption(name, stmt[4]) \o CallsInStatement(name, stmt[5])
      [] stmt[1] = "Break" -> <<>>

CallsInStatements(name, stmts) ==
    IF stmts = <<>> THEN <<>>
    ELSE CallsInStatement(name, Head(stmts)) \o CallsInStatements(name, Tail(stmts))

CallsInDeclaration(name, decl) ==
    CASE decl[1] = "Variable" -> CallsInVarDecl(name, decl[2])
      [] decl[1] = "Function" -> CallsInStatements(name, decl[2].body)
      [] decl[1] = "FunctionDeclaration" -> <<>>

RECURSIVE CallsInDeclarations(_, _)
CallsInDeclarations(name, decls) ==
    IF decls = <<>> THEN <<>>
    ELSE CallsInDeclaration(name, Head(decls)) \o CallsInDeclarations(name, Tail(decls))

\* The argument lists of the calls of printf in the unit.
PrintfCalls == CallsInDeclarations("printf", external_declarations)

\* The unit declares no printf of its own: no declaration, parameter or
\* local of that name.  (No unit has a parameter or a local named printf.)
NoOwnPrintf ==
    \A i \in DOMAIN external_declarations : external_declarations[i][2].name # "printf"

\* A directive includes the standard-I/O header, <stdio.h> or "stdio.h".
IncludesStdio ==
    \E i \in DOMAIN preprocessor_list :
        /\ preprocessor_list[i][1] = "Include"
        /\ preprocessor_list[i][2] \in { <<"stdio", ".", "h">>, <<"stdio.h">> }

\* The recorded errors that say printf is called undefined.
UndefinedPrintfErrors ==
    SelectSeq(errors, LAMBDA e : e = <<"UndefinedFunctionCalled", "printf">>)

\* The global scope binds printf to a function.
PrintfBound ==
    /\ "printf" \in DOMAIN scopes[1].symbols
    /\ scopes[1].symbols["printf"].kind.tag = "Function"

\* C15: when a directive includes the standard-I/O header, printf is bound
\* as a function in the global scope before the first external declaration is
\* analyzed, and no call of printf is reported UndefinedFunctionCalled;
\* without such an include every call of printf is reported.
C15_PrintfOnlyWithStdio ==
    /\ (pass = "analyze" /\ next_decl = 1 /\ IncludesStdio) => PrintfBound
    /\ (pass = "analyzed" /\ NoOwnPrintf) =>
          Len(UndefinedPrintfErrors) = IF IncludesStdio THEN 0 ELSE Len(PrintfCalls)

\* The checker's errors that say printf is called with the wrong number of
\* arguments.
PrintfArityErrors ==
    SelectSeq(checker[1].errors,
              LAMBDA e : e.error = "FnCallParamCount" /\ e.context = "printf")

\* C16: the injected printf is variadic: with the standard-I/O header
\* included, the calls printf(a1, .., an) with n >= 1 are checked without a
\* FnCallParamCount error.
C16_PrintfVariadic ==
    (/\ pass = "checked"
     /\ IncludesStdio
     /\ NoOwnPrintf
     /\ \A i \in DOMAIN PrintfCalls : Len(PrintfCalls[i]) >= 1)
        => PrintfArityErrors = <<>>

(***************************************************************************)
(* Properties of the type checker, stated over the runs of SpecAnalysis.   *)
(***************************************************************************)
\* The expressions of TypedExpression, and the type each is listed under.
StatedExpressions == { TypedExpression[t] : t \in DOMAIN TypedExpression }
StatedTypeOf(expr) == CHOOSE t \in DOMAIN TypedExpression : TypedExpression[t] = expr

Numeric == {"Int", "Float", "Double", "Char", "Short", "Long"}

\* The relation as stated.
StatedCompatible(t1, t2) == t1 = t2 \/ (t1 \in Numeric /\ t2 \in Numeric)

\* The checker's errors of one kind and context.
CheckerErrors(kind, context) ==
    SelectSeq(checker[1].errors, LAMBDA e : e.error = kind /\ e.context = context)

\* The only statement of the only function of the unit, when it is one.
OnlyFunction ==
    /\ Len(external_declarations) = 1
    /\ external_declarations[1][1] = "Function"
OnlyStatement ==
    /\ OnlyFunction
    /\ Len(external_declarations[1][2].body) = 1
TheStatement == external_declarations[1][2].body[1]

\* The unit is one of EqualityUnits.
IsEqualityUnit ==
    /\ OnlyStatement
    /\ TheStatement[1] = "Expression"
    /\ TheStatement[2][1] = "BinaryOp"
    /\ TheStatement[2][3] \in {"Equals", "NotEquals"}
    /\ TheStatement[2][2] \in StatedExpressions
    /\ TheStatement[2][4] \in StatedExpressions
    /\ StatedTypeOf(TheStatement[2][2]) \in Type
    /\ StatedTypeOf(TheStatement[2][4]) \in Type

IsTopInitializer ==
    /\ Len(external_declarations) = 1
    /\ external_declarations[1][1] = "Variable"
IsLocalInitializer ==
    /\ OnlyStatement
    /\ TheStatement[1] = "Declaration"
TheDeclaration ==
    IF IsTopInitializer THEN external_declarations[1][2] ELSE TheStatement[2]

\* The expression that gives an initializer its type.
InitializerExpression(init) ==
    CASE init[1] = "Assignment" -> init[2]
      [] init[1] = "List" -> init[2][1][2]
      [] init[1] = "Designated" -> init[3][2]

IsInitializerUnit ==
    /\ IsTopInitializer \/ IsLocalInitializer
    /\ TheDeclaration.initializer # NoneOpt
    /\ InitializerExpression(TheDeclaration.initializer[1]) \in StatedExpressions

TheInitializerType == StatedTypeOf(InitializerExpression(TheDeclaration.initializer[1]))
TheDeclaredType == type_specifier_to_type(TheDeclaration.type_specifier)

\* The declaration is reported exactly when its initializer has a type among
\* types that is incompatible with the declared type.
InitializerReported(types) ==
    Len(CheckerErrors("ExpressionTypeMismatch", TheDeclaration.name))
        = IF /\ TheInitializerType \in types
             /\ ~StatedCompatible(TheDeclaredType, TheInitializerType)
          THEN 1 ELSE 0

\* C18, as stated: a declaration with an initializer is accepted when the
\* type of the initializer is compatible with the declared type and reported
\* ExpressionTypeMismatch when it is not, for every declared type and every
\* type of the initializer.
C18_InitializerCompatibility ==
    (pass = "checked" /\ IsInitializerUnit) => InitializerReported(Type)

\* C18, amended: the same for every declared type and every type of the
\* initializer other than Unknown; an initializer of type Unknown is accepted
\* whatever the declared type.
C18_InitializerCompatibilityKnown ==
    (pass = "checked" /\ IsInitializerUnit) => InitializerReported(Type \ {"Unknown"})

\* short x = { "hi", 1 }; inside a function has been reported.
C18_Witness ==
    /\ pass = "checked"
    /\ external_declarations =
          InitializerUnit("Short", "List", "String", TRUE).external_declarations
    /\ Len(CheckerErrors("ExpressionTypeMismatch", "x")) = 1

RECURSIVE ConditionsIn(_)
RECURSIVE ConditionsInAll(_)
\* The conditions of the if, while and for statements in a statement, each
\* with the keyword of its statement, in the order the checker meets them.
ConditionsIn(stmt) ==
    CASE stmt[1] \in {"Declaration", "Assignment", "Return", "Expression", "Break"} -> <<>>
      [] stmt[1] = "Block" -> ConditionsInAll(stmt[2])
      [] stmt[1] = "If" ->
            << <<"if", stmt[2]>> >> \o ConditionsIn(stmt[3]) \o ConditionsInAll(stmt[4])
      [] stmt[1] = "While" -> << <<"while", stmt[2]>> >> \o ConditionsIn(stmt[3])
      [] stmt[1] = "For" ->
            ConditionsInAll(stmt[2])
            \o (IF stmt[3] = NoneOpt THEN <<>> ELSE << <<"for", stmt[3][1]>> >>)
            \o ConditionsIn(stmt[5])

ConditionsInAll(stmts) ==
    IF stmts = <<>> THEN <<>> ELSE ConditionsIn(Head(stmts)) \o ConditionsInAll(Tail(stmts))

RECURSIVE ReturnsIn(_)
RECURSIVE ReturnsInAll(_)
\* The operands of the return statements in a statement, at every depth.
ReturnsIn(stmt) ==
    CASE stmt[1] \in {"Declaration", "Assignment", "Expression", "Break"} -> <<>>
      [] stmt[1] = "Return" -> <<stmt[2]>>
      [] stmt[1] = "Block" -> ReturnsInAll(stmt[2])
      [] stmt[1] = "If" -> ReturnsIn(stmt[3]) \o ReturnsInAll(stmt[4])
      [] stmt[1] = "While" -> ReturnsIn(stmt[3])
      [] stmt[1] = "For" -> ReturnsInAll(stmt[2]) \o ReturnsIn(stmt[5])

ReturnsInAll(stmts) ==
    IF stmts = <<>> THEN <<>> ELSE ReturnsIn(Head(stmts)) \o ReturnsInAll(Tail(stmts))

TheFunction == external_declarations[1][2]
TheConditions == ConditionsInAll(TheFunction.body)
TheReturns == ReturnsInAll(TheFunction.body)

\* The unit is one function whose conditions are expressions of
\* TypedExpression.
ConditionsStated ==
    /\ OnlyFunction
    /\ \A i \in DOMAIN TheConditions : TheConditions[i][2] \in StatedExpressions

\* The conditions that have a type other than Bool, and their keywords.
NonBooleanConditions ==
    SelectSeq(TheConditions, LAMBDA c : StatedTypeOf(c[2]) \in Type \ {"Bool"})
StatedNonBoolean == [i \in DOMAIN NonBooleanConditions |-> NonBooleanConditions[i][1]]

\* The keywords the checker's NonBooleanCondStmt errors name.
NonBooleanErrors == SelectSeq(checker[1].errors, LAMBDA e : e.error = "NonBooleanCondStmt")
ReportedNonBoolean == [i \in DOMAIN NonBooleanErrors |-> NonBooleanErrors[i].context]

\* Every return of the function carries a value.
AllReturnsValued == \A i \in DOMAIN TheReturns : TheReturns[i] # NoneOpt

\* C19: an if, a while or a for whose condition has a type other than Bool is
\* reported NonBooleanCondStmt, one whose condition is Bool is not, and the
\* body is checked all the same: the returns of a value in the bodies, the
\* function being void, are each reported.
C19_NonBooleanCondition ==
    (pass = "checked" /\ ConditionsStated) =>
        /\ ReportedNonBoolean = StatedNonBoolean
        /\ (TheFunction.return_type = "void" /\ AllReturnsValued) =>
              Len(CheckerErrors("ErroneousReturnType", "return")) = Len(TheReturns)

\* if (1) { return 1; } else { return 1; } inside a for inside an else has
\* been checked: the if is reported, and so are both returns.
C19_Witness ==
    /\ pass = "checked"
    /\ external_declarations = ConditionUnit("IfElse", "Int", <<"Else", "For">>).external_declarations
    /\ ReportedNonBoolean = <<"if">>
    /\ Len(CheckerErrors("ErroneousReturnType", "return")) = 2

\* The unit is one function whose returns carry expressions of
\* TypedExpression or nothing.
ReturnsStated ==
    /\ OnlyFunction
    /\ \A i \in DOMAIN TheReturns :
          TheReturns[i] = NoneOpt \/ TheReturns[i][1] \in StatedExpressions

\* A return is erroneous as stated: in a Void function when it carries a
\* value, in another when it carries none or one whose type, among types, is
\* incompatible with the return type.
StatedErroneous(value, return_type, types) ==
    IF return_type = "Void" THEN value # NoneOpt
    ELSE \/ value = NoneOpt
         \/ /\ StatedTypeOf(value[1]) \in types
            /\ ~StatedCompatible(return_type, StatedTypeOf(value[1]))

\* The erroneous returns of the function are the ones reported.
ErroneousReported(types) ==
    Len(CheckerErrors("ErroneousReturnType", "return"))
        = Len(SelectSeq(TheReturns,
                        LAMBDA value :
                            StatedErroneous(value, string_to_type(TheFunction.return_type),
                                            types)))

\* C20, as stated: in a Void function every return that carries a value is
\* reported ErroneousReturnType; in another function every return without a
\* value or with a value of a type incompatible with the return type is
\* reported, and a return of a compatible value is accepted, at every depth
\* of the body.
C20_ReturnChecked ==
    (pass = "checked" /\ ReturnsStated) => ErroneousReported(Type)

\* C20, amended: the same, except that in a function that is not Void a
\* return whose value has the type Unknown is accepted whatever the return
\* type.
C20_ReturnCheckedKnown ==
    (pass = "checked" /\ ReturnsStated) => ErroneousReported(Type \ {"Unknown"})

\* return "hi"; inside a while inside a block of a double function has been
\* reported.
C20_Witness ==
    /\ pass = "checked"
    /\ external_declarations =
          ReturningUnit("double", SomeOpt(TypedExpression["String"]),
                        <<"Block", "While">>).external_declarations
    /\ Len(CheckerErrors("ErroneousReturnType", "return")) = 1

RECURSIVE StatedReturns(_)
\* The statement returns, as the checker counts it: a return does, a block
\* does when one of its statements does, an if does when it has an else and
\* both arms do, and no other statement does.
StatedReturns(stmt) ==
    CASE stmt[1] = "Return" -> TRUE
      [] stmt[1] = "Block" -> \E i \in DOMAIN stmt[2] : StatedReturns(stmt[2][i])
      [] stmt[1] = "If" ->
            /\ stmt[4] # NoneOpt
            /\ StatedReturns(stmt[3])
            /\ StatedReturns(stmt[4][1])
      [] OTHER -> FALSE

\* The statement list has a Return node in it.
DirectReturn(body) == \E i \in DOMAIN body : body[i][1] = "Return"

\* The statement list has a statement that returns.
ReturningStatement(body) == \E i \in DOMAIN body : StatedReturns(body[i])

\* The function definitions of the unit named name that are not void and
\* whose body has no return, Present saying what having one is.
LackingReturn(name, Present(_)) ==
    { j \in DOMAIN external_declarations :
        /\ external_declarations[j][1] = "Function"
        /\ external_declarations[j][2].name = name
        /\ string_to_type(external_declarations[j][2].return_type) # "Void"
        /\ ~Present(external_declarations[j][2].body) }

\* ReturnStmtNotFound is reported once for each function lacking a return
\* and for no other.
MissingReturnReported(Present(_)) ==
    \A i \in DOMAIN external_declarations :
        external_declarations[i][1] = "Function" =>
            Len(CheckerErrors("ReturnStmtNotFound", external_declarations[i][2].name))
                = Cardinality(LackingReturn(external_declarations[i][2].name, Present))

RECURSIVE StrayBreaks(_)
RECURSIVE StrayBreaksAll(_)
\* The number of the breaks in a statement that are inside the body of no
\* while or for of it.
StrayBreaks(stmt) ==
    CASE stmt[1] = "Break" -> 1
      [] stmt[1] = "Block" -> StrayBreaksAll(stmt[2])
      [] stmt[1] = "If" -> StrayBreaks(stmt[3]) + StrayBreaksAll(stmt[4])
      [] stmt[1] = "For" -> StrayBreaksAll(stmt[2])
      [] OTHER -> 0

StrayBreaksAll(stmts) ==
    IF stmts = <<>> THEN 0 ELSE StrayBreaks(Head(stmts)) + StrayBreaksAll(Tail(stmts))

RECURSIVE StrayBreaksOf(_)
\* The same over the function definitions among declarations.
StrayBreaksOf(decls) ==
    IF decls = <<>> THEN 0
    ELSE (IF Head(decls)[1] = "Function" THEN StrayBreaksAll(Head(decls)[2].body) ELSE 0)
         + StrayBreaksOf(Tail(decls))

\* C22: a break is reported ErroneousBreak exactly when it is inside the body
\* of no while or for of its function: a break after a loop is reported, one
\* after an inner loop and inside an outer one is not, and a loop of an
\* earlier function makes no break of a later one accepted.
C22_BreakOnlyInLoop ==
    pass = "checked" =>
        /\ Len(CheckerErrors("ErroneousBreak", "break")) = StrayBreaksOf(external_declarations)
        /\ \A i \in DOMAIN checker[1].errors :
              checker[1].errors[i].error = "ErroneousBreak"
                  => checker[1].errors[i].context = "break"

\* void g() { while (1 < 1) break; } void f() { { while (1 < 1) break; break; } }
\* has been checked: of the three breaks the one after the loop is reported.
C22_Witness ==
    /\ pass = "checked"
    /\ external_declarations =
          BreakUnit("AfterBreakingWhile", <<>>, TRUE).external_declarations
    /\ Len(CheckerErrors("ErroneousBreak", "break")) = 1
    /\ ~checker[1].in_loop

\* The unit is one of CallUnits: a function f and int x = f(..) after it.
IsCallUnit ==
    /\ Len(external_declarations) = 2
    /\ external_declarations[1][1] \in {"Function", "FunctionDeclaration"}
    /\ external_declarations[1][2].name = "f"
    /\ external_declarations[2][1] = "Variable"
    /\ external_declarations[2][2].initializer # NoneOpt
    /\ external_declarations[2][2].initializer[1][1] = "Assignment"
    /\ external_declarations[2][2].initializer[1][2][1] = "FunctionCall"
    /\ external_declarations[2][2].initializer[1][2][2] = "f"
    /\ \A i \in DOMAIN external_declarations[2][2].initializer[1][2][3] :
          external_declarations[2][2].initializer[1][2][3][i] \in StatedExpressions

TheCallee == external_declarations[1][2]
TheArguments == external_declarations[2][2].initializer[1][2][3]

\* The arguments that have a parameter, a type among types and not one
\* compatible with the type of the parameter.
IncompatibleArguments(types) ==
    { i \in DOMAIN TheArguments \cap DOMAIN TheCallee.parameters :
        /\ StatedTypeOf(TheArguments[i]) \in types
        /\ ~StatedCompatible(string_to_type(TheCallee.parameters[i].param_type),
                             StatedTypeOf(TheArguments[i])) }

\* What the check of the call reports, and the type it gives the call: the
\* initializer of the int x is reported exactly when the return type of f
\* is not compatible with Int.
CallReported(types) ==
    /\ Len(CheckerErrors("FnCallParamCount", "f"))
          = IF Len(TheArguments) # Len(TheCallee.parameters) THEN 1 ELSE 0
    /\ Len(CheckerErrors("FnCallParamType", "f")) = Cardinality(IncompatibleArguments(types))
    /\ Len(CheckerErrors("ExpressionTypeMismatch", "x"))
          = IF StatedCompatible("Int", string_to_type(TheCallee.return_type)) THEN 0 ELSE 1

\* C23, as stated: for a call of a declared function with p parameters and n
\* arguments, FnCallParamCount is reported once exactly when n # p; each of
\* the first min(n, p) arguments is reported FnCallParamType when its type is
\* incompatible with the type of its parameter; and the type of the call is
\* the declared return type in every case.
C23_CallChecked ==
    (pass = "checked" /\ IsCallUnit) => CallReported(Type)

\* C23, amended: the same, except that an argument of type Unknown is not
\* reported whatever the type of its parameter.
C23_CallCheckedKnown ==
    (pass = "checked" /\ IsCallUnit) => CallReported(Type \ {"Unknown"})

\* void f(int a, char b); int x = f("hi"); has been checked: the count, the
\* type of the argument and the type of the call are each reported.
C23_Witness ==
    /\ pass = "checked"
    /\ external_declarations =
          CallUnit("Prototype", "void",
                   << [param_type |-> "int", name |-> "a"],
                      [param_type |-> "char", name |-> "b"] >>,
                   << TypedExpression["String"] >>).external_declarations
    /\ Len(CheckerErrors("FnCallParamCount", "f")) = 1
    /\ Len(CheckerErrors("FnCallParamType", "f")) = 1
    /\ Len(CheckerErrors("ExpressionTypeMismatch", "x")) = 1

\* C24: a sub-expression whose check failed has the type Unknown and causes
\* no further report: with one operator applied to the wrong types in the
\* expression, the operators, assignments and ternaries around it and the
\* condition of the if, while or for it is in add no error, so one error is
\* recorded; with one undeclared identifier instead, none is.
C24_NoCascade ==
    pass = "checked" =>
        /\ external_declarations \in IllTypedCascades => Len(checker[1].errors) = 1
        /\ external_declarations \in UndeclaredCascades => checker[1].errors = <<>>

\* C25: an invalid construct does not hide a type error nested in it: the
\* "hi" + 1 in an argument of a call is reported also when the function
\* called is not declared and when the argument is beyond the parameters of
\* the function, and the one in the right-hand side of an assignment
\* statement also when the target is not declared.
C25_NestedErrorReported ==
    (pass = "checked" /\ external_declarations \in HidingDeclarations) =>
        Len(CheckerErrors("AttemptedAddOpOnNonNumeric", "+")) = 1

RECURSIVE ScopesOpened(_)
RECURSIVE ScopesOpenedAll(_)
\* The number of scopes the analyzer enters for a statement: one for each
\* block and each for in it.
ScopesOpened(stmt) ==
    CASE stmt[1] = "Block" -> 1 + ScopesOpenedAll(stmt[2])
      [] stmt[1] = "If" -> ScopesOpened(stmt[3]) + ScopesOpenedAll(stmt[4])
      [] stmt[1] = "While" -> ScopesOpened(stmt[3])
      [] stmt[1] = "For" -> 1 + ScopesOpenedAll(stmt[2]) + ScopesOpened(stmt[5])
      [] OTHER -> 0

ScopesOpenedAll(stmts) ==
    IF stmts = <<>> THEN 0 ELSE ScopesOpened(Head(stmts)) + ScopesOpenedAll(Tail(stmts))

RECURSIVE ScopesBefore(_)
\* The number of scopes the analyzer has entered before declaration i.
ScopesBefore(i) ==
    IF i = 1 THEN 0
    ELSE ScopesBefore(i - 1)
         + (IF external_declarations[i - 1][1] = "Function"
            THEN 1 + ScopesOpenedAll(external_declarations[i - 1][2].body) ELSE 0)

\* The scope the analyzer enters for the function definition that is
\* declaration i: the next after the global scope and the scopes before.
ResolverScope(i) == ScopesBefore(i) + 2

\* The scope analysis recorded name as undeclared.
RecordedUndeclared(name) ==
    \E i \in DOMAIN errors : errors[i] = <<"UndeclaredVariable", name>>

\* C26: while the body of a function definition g is checked, the current
\* scope of the checker is the scope the analyzer made for g, for every g of
\* the unit, also when several functions have no parameters or parameters of
\* the same names; so an identifier in g never resolves to a parameter or a
\* local of another function: the assignment of "hi" to a name in g is
\* reported for the int the analyzer bound the name to, and not reported
\* when the analyzer found the name undeclared.
C26_FunctionScopeMatches ==
    /\ (/\ pass = "check"
        /\ next_decl <= Len(external_declarations)
        /\ external_declarations[next_decl][1] = "Function")
          => function_scope(external_declarations[next_decl][2])
                = SomeOpt(ResolverScope(next_decl))
    /\ (pass = "checked" /\ external_declarations \in TwinDeclarations) =>
          \A name \in {"x", "a"} :
              (\E i \in 1..2, j \in 1..2 :
                    /\ j <= Len(external_declarations[i][2].body)
                    /\ external_declarations[i][2].body[j][1] = "Assignment"
                    /\ external_declarations[i][2].body[j][2] = name)
                  => Len(CheckerErrors("ExpressionTypeMismatch", name))
                        = IF RecordedUndeclared(name) THEN 0 ELSE 1

\* The scope stated for a function definition is the one the analyzer
\* enters for it.
ResolverScopeEntered ==
    [][(/\ pass = "analyze"
        /\ next_decl <= Len(external_declarations)
        /\ external_declarations[next_decl][1] = "Function"
        /\ next_decl' = next_decl + 1)
          => /\ ResolverScope(next_decl) = Len(scopes) + 1
             /\ scopes'[ResolverScope(next_decl)].parent = 1]_vars

\* C27: while a nested block or a for is checked, the current scope of the
\* checker is the scope the analyzer made for that block or for, also for
\* the second and later of the sibling blocks and loops of one scope; hence
\* every use of an identifier gets the type of the symbol the analyzer bound
\* it to: the assignment of "hi" to x in the block or for is reported for
\* the int x the analyzer bound it to, and not reported when the analyzer
\* found x undeclared.
C27_BlockScopeMatches ==
    (pass = "checked" /\ external_declarations \in SiblingDeclarations) =>
        Len(CheckerErrors("ExpressionTypeMismatch", "x"))
            = IF RecordedUndeclared("x") THEN 0 ELSE 1


\* The TypeSpecifier that stands for each local type keyword.
TypeSpecifierOf ==
    [Int |-> "Int", Float |-> "Float", Char |-> "Char", Double |-> "Double",
     Long |-> "Long", Short |-> "Short"]

\* The Option<Expression> an initializer part stands for.
ParsedInitializer(init) ==
    IF init = <<>> THEN NoneOpt ELSE SomeOpt(<<"Constant", "Integer", init[2].v>>)

\* The unit of `int f ( ) { T v init ; }`.
UnitOfLocalDeclaration(t, init) ==
    << <<"Function",
         [return_type |-> "int", name |-> "f", parameters |-> <<>>,
          body |-> << <<"Declaration",
                        [storage_class |-> NoneOpt, type_qualifiers |-> <<>>,
                         type_specifier |-> TypeSpecifierOf[t],
                         name |-> "v", initializer |-> ParsedInitializer(init)]>> >>]>> >>

\* C28: a local declaration `T name;` or `T name = expr;` in a function body,
\* for each of int, float, char, double, long and short, parses to one
\* Declaration statement whose type_specifier is the one of T and whose
\* initializer is the parsed expr (None when absent), and the function
\* definition around it is produced.
C28_LocalDeclarationParsed ==
    \A t \in LocalTypeTokens : \A init \in Initializers :
        (tokens = LocalDeclaration(t, init) /\ Finished)
            => (outcome.state = "Ok"
                    /\ external_declarations = UnitOfLocalDeclaration(t, init))


\* The error the claim has a failed declaration of (name, kind) append.
StatedRedefinition(name, kind) ==
    <<IF kind.tag = "Function" THEN "FunctionPrototypeRedefinition"
      ELSE "VariableRedefinition", name>>

\* C29: a declare_symbol call that fails leaves the symbol table of every scope
\* as it was (so a prototype followed by a definition of the same function
\* keeps is_defined = false), leaves the current scope as it was and appends
\* exactly one error, whose variant is chosen by the kind of the new symbol:
\* FunctionPrototypeRedefinition for a Function, VariableRedefinition otherwise.
C29_FailedDeclareFrame ==
    [][(last'.op = "declare_symbol" /\ ~last'.ret.ok) =>
          /\ scopes' = scopes
          /\ current_scope' = current_scope
          /\ errors' = Append(errors, StatedRedefinition(last'.name, last'.kind))]_vars

\* The definition of x has just been refused in a scope where x is bound to
\* a prototype, which is still what x is bound to.
C29_Witness ==
    /\ last.op = "declare_symbol" /\ ~last.ret.ok
    /\ last.kind = FunctionKind
    /\ scopes[current_scope].symbols["x"].kind = PrototypeKind
    /\ errors = << <<"FunctionPrototypeRedefinition", "x">> >>


RECURSIVE StatementsIn(_)
RECURSIVE StatementsInAll(_)

\* The statement stmt and every statement inside it.
StatementsIn(stmt) ==
    {stmt} \cup
        CASE stmt[1] = "Block" -> StatementsInAll(stmt[2])
          [] stmt[1] = "If" ->
                StatementsIn(stmt[3])
                    \cup (IF stmt[4] = NoneOpt THEN {} ELSE StatementsIn(stmt[4][1]))
          [] stmt[1] = "While" -> StatementsIn(stmt[3])
          [] stmt[1] = "For" ->
                (IF stmt[2] = NoneOpt THEN {} ELSE StatementsIn(stmt[2][1]))
                    \cup StatementsIn(stmt[5])
          [] OTHER -> {}

StatementsInAll(stmts) ==
    IF stmts = <<>> THEN {} ELSE StatementsIn(Head(stmts)) \cup StatementsInAll(Tail(stmts))

\* The function definitions of the unit.
FunctionDefinitions ==
    { external_declarations[i][2] : i \in { j \in DOMAIN external_declarations :
                                              external_declarations[j][1] = "Function" } }

\* The checker inside func_def, in the scope of index scope, in a loop or not.
CheckerInside(func_def, scope, in_loop) ==
    [checker[1] EXCEPT !.current_scope = SomeOpt(scope),
                       !.in_loop = in_loop,
                       !.current_return_type =
                            SomeOpt(string_to_type(func_def.return_type))]

\* check_statement on stmt leaves the two cursors of c as they were.
CursorsKept(c, stmt) ==
    With(check_statement(c, stmt).c, LAMBDA after :
         /\ after.current_scope = c.current_scope
         /\ after.in_loop = c.in_loop)

\* Between two external declarations the cursors are those of a new checker.
CursorsAtRest ==
    /\ checker[1].current_scope = SomeOpt(get_global_scope)
    /\ checker[1].in_loop = FALSE
    /\ checker[1].current_return_type = NoneOpt

\* C30: the cursors the checker saves by hand are always restored.  Checking
\* any statement of a function, from any scope and inside or outside a loop,
\* leaves current_scope and in_loop as they were before it; and after every
\* external declaration, hence when check_translation_unit returns,
\* current_scope is the global scope, in_loop is false and
\* current_return_type is None, whatever errors were recorded.
C30_CursorsRestored ==
    /\ pass \in {"check", "checked"} => CursorsAtRest
    /\ pass = "checked" =>
          \A func_def \in FunctionDefinitions :
            \A stmt \in StatementsInAll(func_def.body) :
              \A scope \in DOMAIN get_all_scopes : \A in_loop \in BOOLEAN :
                CursorsKept(CheckerInside(func_def, scope, in_loop), stmt)

\* check_translation_unit has returned errors for a unit with a function in
\* whose body a for and a block are nested.
C30_Witness ==
    /\ pass = "checked"
    /\ checker[1].errors # <<>>
    /\ \E func_def \in FunctionDefinitions :
          \E outer \in StatementsInAll(func_def.body) :
             /\ outer[1] = "For"
             /\ \E inner \in StatementsIn(outer) : inner[1] = "Block"

====
